---- MODULE Spec2Model ----
(***************************************************************************)
(* State-machine model of the Conneclify SMS gateway server:               *)
(*   - the storage tables of shared/schema.ts and their accessors          *)
(*     (DatabaseStorage), each accessor one atomic SQL statement;          *)
(*   - the HTTP route handlers of server/routes.ts, one action per         *)
(*     stretch of code between two awaits, so that concurrent requests     *)
(*     interleave exactly where the event loop lets them;                  *)
(*   - the WebSocket fan-out registries (clients / userClients);           *)
(*   - the credential vault and the provider factory as operators.         *)
(***************************************************************************)
EXTENDS Integers, Sequences, FiniteSets, TLC

(***************************************************************************)
(* Bounds of the model.                                                    *)
(***************************************************************************)
MaxGateways == 4        \* rows the sms_gateways table may hold
MaxCreateGateway == 2   \* POST /api/integrations/gateways requests
MaxActivate == 2        \* PATCH /api/integrations/gateways/:id/activate requests
MaxConversations == 3   \* rows ever inserted into the conversations table
MaxMessages == 3        \* rows ever inserted into the messages table
MaxInbound == 2         \* POST /api/webhooks/sms/inbound requests
MaxStatus == 2          \* POST /api/webhooks/sms/status requests
MaxSend == 2            \* POST /api/conversations/:id/messages requests
MaxDelete == 1          \* DELETE /api/conversations/:id requests
MaxAssign == 1          \* POST /api/team/:id/assignments requests
MaxUnassign == 1        \* DELETE /api/team/:id/assignments/:phoneNumberId requests
MaxConnections == 2     \* WebSocket connections accepted on /ws
MaxWsMessages == 3      \* messages received over all WebSocket connections

(***************************************************************************)
(* Identifiers.  Row ids are positive integers (gen_random_uuid() in the   *)
(* schema: fresh, never reused); NoId is the SQL NULL of a nullable        *)
(* reference column.  User ids are strings, NoUser their NULL.             *)
(***************************************************************************)
NoId == 0
NoUser == "null"
Admins == {"A1", "A2"}
Members == {"M1", "M2"}
UserIds == Admins \cup Members
Providers == {"twilio", "signalwire", "telnyx"}

\* Strings the code takes apart (phone numbers) are sequences of characters.
MainLine == <<"+", "1", "4", "1", "5", "5", "5", "5", "1", "2", "3", "4">>
SalesLine == <<"+", "1", "2", "1", "2", "5", "5", "5", "9", "8", "7", "6">>
Contact == <<"+", "1", "9", "9", "9", "8", "8", "8", "7", "7", "7", "7">>
EmptyString == << >>
Digit == {"0", "1", "2", "3", "4", "5", "6", "7", "8", "9"}

VARIABLES
    users,          \* table users: set of rows
    smsGateways,    \* table sms_gateways: set of rows
    phoneNumbers,   \* table phone_numbers: set of rows
    conversations,  \* table conversations: set of rows
    messages,       \* table messages: set of rows
    seq,            \* last id handed out per table
    env,            \* process.env: the webhook secrets that are set
    emitted,        \* number of fan-out events written so far, per event type
    createGw,       \* POST /api/integrations/gateways handlers in flight
    activateGw,     \* PATCH .../activate handlers in flight
    inbound,        \* POST /api/webhooks/sms/inbound handlers in flight
    statusWh,       \* POST /api/webhooks/sms/status handlers in flight
    send,           \* POST /api/conversations/:id/messages handlers in flight
    del,            \* DELETE /api/conversations/:id handlers in flight
    assignPhone,    \* POST /api/team/:id/assignments handlers in flight
    unassignPhone,  \* DELETE /api/team/:id/assignments/:phoneNumberId handlers in flight
    clients,        \* Map conversationId -> Set<WebSocket>
    userClients,    \* Map userId -> Set<WebSocket>
    conns,          \* per connection: readyState and the closure variables of its handlers
    wsMsg,          \* ws.on("message") handlers in flight
    sent,           \* per connection: number of events written to it, per event type
    broken,         \* connections whose socket raises on the next write
    factory,        \* a call of createSmsProvider and what it produced
    listing,        \* a GET /api/phone-numbers or GET /api/conversations request
    teamDel,        \* a DELETE /api/team/:id request
    gwDel,          \* a DELETE /api/integrations/gateways/:id request
    convReq,        \* a PATCH /api/conversations/:id or POST .../read request
    ctx,            \* a call of getProviderContext and what it returned
    vault,          \* a call of encryptCredentials / decryptCredentials and its result
    fmt,            \* a call of formatToE164 and what it returned
    retry,          \* a call of retryWithBackoff: attempts, waits and outcome
    teamReq         \* a PATCH /api/team/:id or POST /api/team/:id/reset-password request

tables == <<users, smsGateways, phoneNumbers, conversations, messages, seq>>
gwHandlers == <<createGw, activateGw>>
webhooks == <<inbound, statusWh>>
apiHandlers == <<send, del, assignPhone, unassignPhone>>
sockets == <<clients, userClients, conns, wsMsg, sent, broken>>
\* the single calls and requests followed one at a time
recent == <<gwDel, convReq, ctx, vault>>
late == <<fmt, retry, teamReq>>
misc == <<factory, listing, teamDel, recent, late>>
\* what the webhook routes never touch
notWebhook == <<gwHandlers, apiHandlers, sockets, misc>>
\* what the gateway routes never touch
others == <<conversations, messages, env, emitted, webhooks, apiHandlers, sockets, misc>>
vars == <<users, smsGateways, phoneNumbers, conversations, messages, seq, env, emitted,
          createGw, activateGw, inbound, statusWh, send, del, assignPhone, unassignPhone,
          clients, userClients, conns, wsMsg, sent, broken, factory, listing, teamDel,
          gwDel, convReq, ctx, vault, fmt, retry, teamReq>>

(***************************************************************************)
(* Tables.                                                                 *)
(***************************************************************************)
UserRow(id, role, createdBy) ==
    [id |-> id, role |-> role, createdBy |-> createdBy, isActive |-> TRUE,
     password |-> "initial"]

GatewayRow(id, adminId, provider, isActive, credentials) ==
    [id |-> id, adminId |-> adminId, provider |-> provider, isActive |-> isActive,
     credentials |-> credentials]

PhoneRow(id, number, gatewayId, adminId, assignedTo) ==
    [id |-> id, number |-> number, gatewayId |-> gatewayId,
     adminId |-> adminId, assignedTo |-> assignedTo]

ConversationRow(id, contactNumber, phoneNumberId, assignedUserId) ==
    [id |-> id, contactNumber |-> contactNumber, phoneNumberId |-> phoneNumberId,
     assignedUserId |-> assignedUserId, unreadCount |-> 0, lastMessagePreview |-> ""]

MessageRow(id, conversationId, senderId, direction, status, signalwireMessageId) ==
    [id |-> id, conversationId |-> conversationId, senderId |-> senderId,
     direction |-> direction, status |-> status,
     signalwireMessageId |-> signalwireMessageId]

\* A column value that is SQL NULL where the column holds a string.
NullText == "null"

\* seedDatabase creates an admin with team members, one gateway and its numbers;
\* the second tenant signs up on its own.
SeedUsers ==
    { UserRow("A1", "admin", NoUser), UserRow("A2", "admin", NoUser),
      UserRow("M1", "team_member", "A1"), UserRow("M2", "team_member", "A2") }

\* The provider each tenant holds an account with (validated.provider of its
\* connect requests), and what that account answers to getOwnedNumbers.
AccountProvider(adminId) == IF adminId = "A1" THEN "twilio" ELSE "telnyx"

OwnedNumbers(adminId) == IF adminId = "A1" THEN {MainLine} ELSE {SalesLine}

(***************************************************************************)
(* DatabaseStorage accessors (one SQL statement each).                     *)
(***************************************************************************)
getUser(id) == { u \in users : u.id = id }

getSmsGateways(adminId) == { g \in smsGateways : g.adminId = adminId }

getSmsGateway(id) == { g \in smsGateways : g.id = id }

\* A lookup that takes any gateway of the admin for the active one.
getAnySmsGateway(adminId) == { g \in smsGateways : g.adminId = adminId }

getActiveSmsGateway(adminId) ==
    { g \in smsGateways : g.adminId = adminId /\ g.isActive }

getPhoneNumberByNumber(number) == { p \in phoneNumbers : p.number = number }

getPhoneNumber(id) == { p \in phoneNumbers : p.id = id }

getPhoneNumbersAssignedToUser(userId) ==
    { p \in phoneNumbers : p.assignedTo = userId }

getConversation(id) == { c \in conversations : c.id = id }

\* A lookup that never finds the conversation.
getNoConversation(phoneNumberId, contactNumber) == {}

\* All rows the WHERE clause matches; the accessor returns one of them ("const [conv] =").
getConversationByPhoneAndContact(phoneNumberId, contactNumber) ==
    { c \in conversations : c.phoneNumberId = phoneNumberId /\ c.contactNumber = contactNumber }

getMessages(conversationId) == { m \in messages : m.conversationId = conversationId }

\* All rows the WHERE clause matches (a NULL column matches nothing).
getMessageBySignalwireId(signalwireMessageId) ==
    { m \in messages : /\ m.signalwireMessageId # NullText
                              /\ m.signalwireMessageId = signalwireMessageId }

\* The foreign keys of conversations (phone_number_id, assigned_user_id) and of
\* messages (conversation_id, sender_id): an INSERT that breaks one is rejected.
ConversationInsertable(conv) ==
    /\ conv.phoneNumberId = NoId \/ getPhoneNumber(conv.phoneNumberId) # {}
    /\ conv.assignedUserId = NoUser \/ getUser(conv.assignedUserId) # {}

MessageInsertable(msg) ==
    /\ getConversation(msg.conversationId) # {}
    /\ msg.senderId = NoUser \/ getUser(msg.senderId) # {}

\* An UPDATE that writes the named columns and clears the row's assignee.
SetColumnsClearAssignee(row, data) ==
    [col \in DOMAIN row |->
        IF col \in DOMAIN data THEN data[col]
        ELSE IF col = "assignedUserId" THEN NoUser ELSE row[col]]

\* db.update(t).set(data): the columns data names take its values.
SetColumns(row, data) ==
    [col \in DOMAIN row |-> IF col \in DOMAIN data THEN data[col] ELSE row[col]]

\* UPDATE conversations SET ... WHERE id = $1
updateConversation(table, id, data) ==
    { IF c.id = id THEN SetColumns(c, data) ELSE c : c \in table }

\* UPDATE messages SET ... WHERE id = $1
updateMessage(table, id, data) ==
    { IF m.id = id THEN SetColumns(m, data) ELSE m : m \in table }

TheRow(rows) == CHOOSE r \in rows : TRUE

\* What the status webhook writes: the mapped status, whatever the stored one is.
StatusUpdate(status) == [status |-> status]

\* The unreadCount the inbound webhook writes: computed from the conversation
\* object the handler read (or created) earlier, not from the row it updates.
InboundUnread(conversation) == conversation.unreadCount + 1

\* setActiveSmsGateway, first statement: UPDATE ... SET is_active = false WHERE admin_id = $1
DeactivateAll(table, adminId) ==
    { IF g.adminId = adminId THEN [g EXCEPT !.isActive = FALSE] ELSE g : g \in table }

\* setActiveSmsGateway, second statement:
\* UPDATE ... SET is_active = true WHERE id = $2 AND admin_id = $1 RETURNING *
ActivateOne(table, adminId, gatewayId) ==
    { IF g.id = gatewayId /\ g.adminId = adminId THEN [g EXCEPT !.isActive = TRUE] ELSE g
      : g \in table }

(***************************************************************************)
(* formatToE164 (routes.ts), on sequences of characters.                   *)
(***************************************************************************)
IsDigit(ch) == ch \in Digit

startsWith(str, ch) == Len(str) > 0 /\ str[1] = ch

\* A formatter that never assumes a country code.
formatVerbatim(phone) == <<"+">> \o SelectSeq(phone, IsDigit)

formatToE164(phone) ==
    LET digits == SelectSeq(phone, IsDigit) IN
    IF startsWith(phone, "+") THEN <<"+">> \o digits
    ELSE IF Len(digits) = 10 THEN <<"+", "1">> \o digits
    ELSE IF Len(digits) = 11 /\ startsWith(digits, "1") THEN <<"+">> \o digits
    ELSE <<"+">> \o digits

(***************************************************************************)
(* Webhook signatures.  An HMAC is the term of its algorithm/encoding, key *)
(* and data: two HMACs are equal exactly when all three agree.  A header   *)
(* is such a term, or absent, or present with an empty value.              *)
(***************************************************************************)
NoSecret == ""
Hmac(alg, key, data) == [alg |-> alg, key |-> key, data |-> data]
NoHeader == Hmac("absent", "", << >>)
EmptyHeader == Hmac("empty", "", << >>)

\* if (twilioSignature) / if (signalWireSignature): undefined and "" are falsy
Truthy(header) == header # NoHeader /\ header # EmptyHeader

verifyTwilioSignature(requestUrl, body, signature, authToken) ==
    Hmac("sha1-base64", authToken, <<requestUrl, body>>) = signature

verifySignalWireSignature(body, signature, token) ==
    Hmac("sha256-hex", token, <<body>>) = signature

\* The signature block both webhook routes open with: 0 when the request may
\* proceed, else the status it is answered with.
VerifyWebhook(rq) ==
    IF ~rq.rawBody THEN 400
    ELSE IF /\ Truthy(rq.twilioSignature)
            /\ \/ env.TWILIO_AUTH_TOKEN = NoSecret
               \/ ~verifyTwilioSignature(rq.originalUrl, rq.rawText, rq.twilioSignature,
                                         env.TWILIO_AUTH_TOKEN)
         THEN 401
    ELSE IF /\ Truthy(rq.signalWireSignature)
            /\ \/ env.SIGNALWIRE_TOKEN = NoSecret
               \/ ~verifySignalWireSignature(rq.rawText, rq.signalWireSignature,
                                             env.SIGNALWIRE_TOKEN)
         THEN 401
    ELSE 0

\* A webhook request.  rawBody is whether express.json's verify hook ran: it runs
\* for a JSON body only, express.urlencoded sets no req.rawBody.  rawText stands
\* for the bytes of the body, body for the fields express parsed out of it.
WebhookRequest(url, json, body, twilioSignature, signalWireSignature) ==
    [originalUrl |-> url, rawBody |-> json, rawText |-> "payload", body |-> body,
     twilioSignature |-> twilioSignature, signalWireSignature |-> signalWireSignature]

EventTypes == {"new_message", "conversation_updated", "new_inbound_message",
               "message_status", "phone_assignment_changed"}
NoEvents == [t \in EventTypes |-> 0]
Emit(type) == [emitted EXCEPT ![type] = @ + 1]

\* map.get(key): the Set stored under the key, nothing when the Map has no such key
MapGet(map, key) == IF key \in DOMAIN map THEN map[key] ELSE {}

\* client.send(data) on an OPEN client writes the event unless the socket raises.
Written(ws, wsClients) ==
    ws \in wsClients /\ conns[ws].readyState = "OPEN" /\ ws \notin broken

\* broadcast(wsClients, data): client.send inside try/catch, so a write that raises
\* is logged and the loop goes on.  log is the per-connection record of writes.
broadcast(log, wsClients, type) ==
    [ws \in DOMAIN log |->
        IF Written(ws, wsClients) THEN [log[ws] EXCEPT ![type] = @ + 1] ELSE log[ws]]

broadcastToConversation(log, conversationId, type) ==
    broadcast(log, MapGet(clients, conversationId), type)

broadcastToUser(log, userId, type) == broadcast(log, MapGet(userClients, userId), type)

\* wsClients.forEach(client => { if (client.readyState === OPEN) client.send(data) })
\* as the two webhook routes write it, with no try/catch: the first write that
\* raises ends the loop and leaves the route by its exception.  `before` are the
\* clients the Set's iteration visited before that one.
Raises(wsClients) ==
    \E ws \in wsClients : conns[ws].readyState = "OPEN" /\ ws \in broken

forEachSend(log, wsClients, type, before) ==
    [ws \in DOMAIN log |->
        IF Written(ws, wsClients) /\ (Raises(wsClients) => ws \in before)
        THEN [log[ws] EXCEPT ![type] = @ + 1] ELSE log[ws]]

(***************************************************************************)
(* The credential vault (crypto.ts) and the provider factory               *)
(* (sms-providers/index.ts).  The text of the credentials column is the    *)
(* term of its form and, when it is a JSON object, of that object's        *)
(* members; an AES-256-GCM ciphertext and its authentication tag are the   *)
(* terms of key, iv and plaintext.  A function that may throw returns      *)
(* [ok, value].                                                            *)
(***************************************************************************)
DevKey == "dev-key-32-bytes-long-for-testing-only!"

\* getEncryptionKey(): ENCRYPTION_KEY, or the development fallback
getEncryptionKey(environment) ==
    IF environment.ENCRYPTION_KEY = NoSecret THEN DevKey ELSE environment.ENCRYPTION_KEY

NoHex == [part |-> "", key |-> "", iv |-> "", plain |-> ""]

\* cipher.update(credentials, 'utf8', 'hex') + cipher.final('hex'): no hex digit
\* at all for the empty plaintext
Cipher(key, iv, plain) ==
    IF plain = "" THEN NoHex ELSE [part |-> "data", key |-> key, iv |-> iv, plain |-> plain]
AuthTag(key, iv, plain) == [part |-> "tag", key |-> key, iv |-> iv, plain |-> plain]

\* A JSON object: its members iv, data and tag ("" / NoHex when it has none) and
\* which of the provider's account fields it carries.
JsonObject(iv, data, tag, fields) == [iv |-> iv, data |-> data, tag |-> tag, fields |-> fields]
NoObject == JsonObject("", NoHex, NoHex, "none")

\* A string by its form: "empty", "blank" (white space only), "text" (not JSON,
\* no leading brace), "brace" (leading brace, not JSON), "json" (a JSON object);
\* form "object" is a value that is an object already, not a string.
Text(form, object) == [form |-> form, object |-> object]
EmptyText == Text("empty", NoObject)

\* The plaintexts that get sealed: the account fields an admin connected with
\* (all present, or some missing), or bytes that are not JSON.
Plaintexts == {"complete", "partial", "garbled"}
Plaintext(label) ==
    IF label = "" THEN EmptyText
    ELSE IF label = "garbled" THEN Text("text", NoObject)
    ELSE Text("json", JsonObject("", NoHex, NoHex, label))

TestedCredentials == "complete"

Threw == [ok |-> FALSE, value |-> EmptyText]
Returned(value) == [ok |-> TRUE, value |-> value]

JSONparse(text) == IF text.form = "json" THEN Returned(text) ELSE Threw

\* encryptCredentials: JSON.stringify({ iv, data, tag, version: 1 })
encryptCredentials(credentials, key) ==
    Text("json", JsonObject("iv", Cipher(key, "iv", credentials),
                            AuthTag(key, "iv", credentials), "none"))

\* parsed.iv && parsed.data && parsed.tag
LooksSealed(object) == object.iv # "" /\ object.data # NoHex /\ object.tag # NoHex

\* decipher.final() throws unless key, iv, ciphertext and tag belong together
Authentic(object, key) ==
    /\ object.data = Cipher(key, object.iv, object.data.plain)
    /\ object.tag = AuthTag(key, object.iv, object.data.plain)

decryptCredentials(encrypted, key) ==
    LET parsed == JSONparse(encrypted) IN
    IF ~parsed.ok THEN Threw
    ELSE IF ~LooksSealed(parsed.value.object) THEN Threw
    ELSE IF ~Authentic(parsed.value.object, key) THEN Threw
    ELSE Returned(Plaintext(parsed.value.object.data.plain))

\* createSmsProvider, the try block: the object the adapter is configured with.
ParseCredentials(credentials, key) ==
    IF credentials.form = "object" THEN Returned(credentials)
    ELSE IF credentials.form \in {"empty", "blank"} THEN Threw
    ELSE LET parsed == JSONparse(credentials)
             decrypted == decryptCredentials(credentials, key)
             startsWithBrace == credentials.form \in {"brace", "json"}
         IN IF parsed.ok /\ LooksSealed(parsed.value.object) /\ decrypted.ok
            THEN JSONparse(decrypted.value)
            ELSE IF ~startsWithBrace THEN Threw
            ELSE JSONparse(credentials)

\* An adapter, or (ok = FALSE) the error thrown in place of one, by the start of
\* its message.
NoAdapter == [ok |-> FALSE, provider |-> "", credentials |-> NoObject, error |-> ""]
InvalidCredentials == [NoAdapter EXCEPT !.error = "Invalid gateway credentials"]
UnknownProvider == [NoAdapter EXCEPT !.error = "Unknown SMS provider"]

\* A factory whose switch has no default branch.
createAnyProvider(gateway, key) ==
    LET parsed == ParseCredentials(gateway.credentials, key) IN
    IF ~parsed.ok THEN InvalidCredentials
    ELSE [ok |-> TRUE, provider |-> gateway.provider, credentials |-> parsed.value.object,
          error |-> ""]

\* createSmsProvider(gateway): throws, or returns the adapter of gateway.provider
\* built on the parsed credentials.
createSmsProvider(gateway, key) ==
    LET parsed == ParseCredentials(gateway.credentials, key) IN
    IF ~parsed.ok THEN InvalidCredentials
    ELSE IF gateway.provider \notin Providers THEN UnknownProvider
    ELSE [ok |-> TRUE, provider |-> gateway.provider, credentials |-> parsed.value.object,
          error |-> ""]

\* new NoGatewayProvider(): the adapter of an account without a gateway
NoGatewayProvider ==
    [ok |-> TRUE, provider |-> "none", credentials |-> NoObject, error |-> ""]

\* isConfigured(): every account field of the provider is set; false for the
\* NoGatewayProvider
isConfigured(adapter) ==
    adapter.provider # "none" /\ adapter.credentials.fields = "complete"

\* What POST /api/integrations/gateways stores for credentials that passed
\* testConnection, sealed when no ENCRYPTION_KEY is set.
Sealed == encryptCredentials(TestedCredentials, DevKey)

(***************************************************************************)
(* Initial state.                                                          *)
(***************************************************************************)
IdleCreateGw ==
    [pc |-> "idle", user |-> NoUser, isFirstGateway |-> FALSE, gateway |-> NoId,
     num |-> "", res |-> 0]

IdleActivateGw == [pc |-> "idle", user |-> NoUser, gatewayId |-> NoId, res |-> 0]

IdleInbound ==
    [pc |-> "idle", fromNumber |-> EmptyString, toNumber |-> EmptyString,
     providerMessageId |-> "", phoneNumber |-> {}, conversation |-> {},
     message |-> {}, res |-> 0]

IdleStatus ==
    [pc |-> "idle", providerMessageId |-> "", status |-> "", message |-> {}, res |-> 0]

\* smsStatus and providerMessageId are the handler's locals of those names; fetches
\* counts the POSTs this request made to the provider's send endpoint.
IdleSend ==
    [pc |-> "idle", user |-> NoUser, id |-> NoId, conversation |-> {}, phoneNumber |-> {},
     smsStatus |-> "pending", providerMessageId |-> NullText, smsError |-> FALSE,
     fetches |-> 0, message |-> {}, res |-> 0]

IdleDelete == [pc |-> "idle", user |-> NoUser, id |-> NoId, res |-> 0]

IdleAssign ==
    [pc |-> "idle", adminId |-> NoUser, teamMemberId |-> NoUser, phoneNumberId |-> NoId,
     phoneNumber |-> {}, res |-> 0]

\* let subscribedConversations = new Set(); let authenticatedUser = null;
\* let authenticatedUserId = null;  (authenticatedUser keeps id and role)
NoAuthenticatedUser == [id |-> NoUser, role |-> ""]
NewConnection ==
    [readyState |-> "CONNECTING", subscribedConversations |-> {},
     authenticatedUser |-> NoAuthenticatedUser, authenticatedUserId |-> NoUser]

IdleWsMsg ==
    [pc |-> "idle", ws |-> 0, userId |-> NoUser, conversationId |-> NoId, reply |-> ""]

IdleFactory ==
    [pc |-> "idle", gatewayId |-> NoId, gateway |-> {}, adapter |-> NoAdapter]

IdleTeamDelete == [pc |-> "idle", id |-> NoUser, res |-> 0]

\* nums are the phone ids clearConversationPhoneNumbers has selected and not yet
\* worked off.
IdleGatewayDelete ==
    [pc |-> "idle", user |-> NoUser, gatewayId |-> NoId, nums |-> {},
     deletedNumbers |-> 0, res |-> 0]

IdleConversationRequest ==
    [pc |-> "idle", route |-> "", user |-> NoUser, id |-> NoId, conversation |-> {},
     res |-> 0]

\* provider, adminId and gateway are the members of the ProviderContext the call
\* returned; threw says that it raised instead.
IdleContext ==
    [pc |-> "idle", userId |-> NoUser, adminId |-> NoUser, gateway |-> {},
     provider |-> NoAdapter, threw |-> FALSE]

\* out is formatToE164(phone), again is formatToE164(out)
IdleFormat == [pc |-> "idle", phone |-> EmptyString, out |-> EmptyString,
               again |-> EmptyString]

\* attempt and lastError are retryWithBackoff's variables of those names; calls
\* counts the invocations of fn, waits lists the delays slept, thrown what fn
\* threw, attempt by attempt; result is "returned" or "threw", error what was
\* raised to the caller.
IdleRetry ==
    [pc |-> "idle", operation |-> "", attempt |-> 0, lastError |-> "", calls |-> 0,
     waits |-> << >>, thrown |-> << >>, result |-> "", error |-> ""]

\* route is "PATCH" (/api/team/:id) or "reset-password"; isActive is the PATCH
\* body's member of that name
IdleTeamRequest ==
    [pc |-> "idle", route |-> "", user |-> NoUser, id |-> NoUser, isActive |-> TRUE,
     res |-> 0]

\* plain was sealed under key into envelope; altered names what was changed in
\* the envelope since; out is what decryptCredentials gave for it.
IdleVault == [pc |-> "idle", key |-> "", plain |-> "", altered |-> "",
              envelope |-> EmptyText, out |-> Threw]

\* phoneIds are the ids the handler has read, body the ids of the rows it answers.
IdleListing ==
    [pc |-> "idle", route |-> "", user |-> NoUser, includeAssigned |-> FALSE,
     adminId |-> NoUser, gatewayId |-> NoId, phoneIds |-> {}, body |-> {}, res |-> 0]

InitHandlers ==
    /\ createGw = [i \in 1..MaxCreateGateway |-> IdleCreateGw]
    /\ activateGw = [i \in 1..MaxActivate |-> IdleActivateGw]
    /\ inbound = [i \in 1..MaxInbound |-> IdleInbound]
    /\ statusWh = [i \in 1..MaxStatus |-> IdleStatus]
    /\ send = [i \in 1..MaxSend |-> IdleSend]
    /\ del = [i \in 1..MaxDelete |-> IdleDelete]
    /\ assignPhone = [i \in 1..MaxAssign |-> IdleAssign]
    /\ unassignPhone = [i \in 1..MaxUnassign |-> IdleAssign]
    /\ clients = [c \in 1..MaxConversations |-> {}]
    /\ userClients = [u \in UserIds |-> {}]
    /\ conns = [w \in 1..MaxConnections |-> NewConnection]
    /\ wsMsg = [i \in 1..MaxWsMessages |-> IdleWsMsg]
    /\ sent = [w \in 1..MaxConnections |-> NoEvents]
    /\ broken = {}
    /\ factory = IdleFactory
    /\ listing = IdleListing
    /\ teamDel = IdleTeamDelete
    /\ gwDel = IdleGatewayDelete
    /\ convReq = IdleConversationRequest
    /\ ctx = IdleContext
    /\ vault = IdleVault
    /\ fmt = IdleFormat
    /\ retry = IdleRetry
    /\ teamReq = IdleTeamRequest

\* Two tenants with a connected gateway and a synced number each; A1's number is
\* assigned to its team member M1.  No webhook secret is configured.
InitTables ==
    /\ users = SeedUsers
    /\ smsGateways = { GatewayRow(1, "A1", "telnyx", TRUE, Sealed),
                       GatewayRow(2, "A1", "twilio", FALSE, Sealed),
                       GatewayRow(3, "A2", "signalwire", TRUE, Sealed) }
    /\ phoneNumbers = { PhoneRow(1, MainLine, 1, "A1", "M1"),
                        PhoneRow(2, SalesLine, 3, "A2", NoUser) }
    /\ conversations = {}
    /\ messages = {}
    /\ seq = [gateway |-> 3, phone |-> 2, conversation |-> 0, message |-> 0]
    /\ emitted = NoEvents

NoSecrets ==
    [TWILIO_AUTH_TOKEN |-> NoSecret, SIGNALWIRE_TOKEN |-> NoSecret,
     ENCRYPTION_KEY |-> NoSecret]

\* Tenant A1 has two gateways (one active) and one number; tenant A2 has signed up
\* and not connected a gateway yet.
InitGateway ==
    /\ users = SeedUsers
    /\ smsGateways = { GatewayRow(1, "A1", "signalwire", TRUE, Sealed),
                       GatewayRow(2, "A1", "twilio", FALSE, Sealed) }
    /\ phoneNumbers = { PhoneRow(1, MainLine, 1, "A1", NoUser) }
    /\ conversations = {}
    /\ messages = {}
    /\ seq = [gateway |-> 2, phone |-> 1, conversation |-> 0, message |-> 0]
    /\ env = NoSecrets
    /\ emitted = NoEvents
    /\ InitHandlers

\* The lowest idle slot of a handler pool: requests are interchangeable until they start.
FirstIdle(pool) ==
    IF \E i \in DOMAIN pool : pool[i].pc = "idle"
    THEN { CHOOSE i \in DOMAIN pool :
              /\ pool[i].pc = "idle"
              /\ \A j \in DOMAIN pool : pool[j].pc = "idle" => i <= j }
    ELSE {}

Role(userId) == (CHOOSE u \in SeedUsers : u.id = userId).role

(***************************************************************************)
(* POST /api/integrations/gateways                                         *)
(***************************************************************************)
\* requireAuth, the admin check, connectGatewaySchema.parse, then the await of
\* tempProvider.testConnection().
CreateGateway_Start ==
    \E i \in FirstIdle(createGw), user \in UserIds :
        /\ createGw' = [createGw EXCEPT ![i] =
              IF Role(user) # "admin"
              THEN [@ EXCEPT !.pc = "done", !.res = 403]
              ELSE [@ EXCEPT !.pc = "testConnection", !.user = user]]
        /\ UNCHANGED <<users, smsGateways, phoneNumbers, seq, activateGw, others>>

\* testConnection resolves; on failure 400, else the await of getSmsGateways.
CreateGateway_TestConnection ==
    \E i \in DOMAIN createGw, success \in BOOLEAN :
        /\ createGw[i].pc = "testConnection"
        /\ createGw' = [createGw EXCEPT ![i] =
              IF success THEN [@ EXCEPT !.pc = "getSmsGateways"]
              ELSE [@ EXCEPT !.pc = "done", !.res = 400]]
        /\ UNCHANGED <<users, smsGateways, phoneNumbers, seq, activateGw, others>>

\* existingGateways = await storage.getSmsGateways(req.user.id)
CreateGateway_GetSmsGateways ==
    \E i \in DOMAIN createGw :
        /\ createGw[i].pc = "getSmsGateways"
        /\ createGw' = [createGw EXCEPT ![i] =
              [@ EXCEPT !.pc = "createSmsGateway",
                        !.isFirstGateway = (getSmsGateways(createGw[i].user) = {})]]
        /\ UNCHANGED <<users, smsGateways, phoneNumbers, seq, activateGw, others>>

\* gateway = await storage.createSmsGateway({..., isActive: isFirstGateway})
CreateGateway_CreateSmsGateway ==
    \E i \in DOMAIN createGw :
        /\ createGw[i].pc = "createSmsGateway"
        /\ seq.gateway < MaxGateways
        /\ LET id == seq.gateway + 1 IN
           /\ smsGateways' = smsGateways \cup
                 { GatewayRow(id, createGw[i].user, AccountProvider(createGw[i].user),
                              createGw[i].isFirstGateway,
                              encryptCredentials(TestedCredentials, getEncryptionKey(env))) }
           /\ seq' = [seq EXCEPT !.gateway = id]
           /\ createGw' = [createGw EXCEPT ![i] =
                 IF @.isFirstGateway
                 THEN [@ EXCEPT !.pc = "getOwnedNumbers", !.gateway = id]
                 ELSE [@ EXCEPT !.pc = "done", !.gateway = id, !.res = 200]]
        /\ UNCHANGED <<users, phoneNumbers, activateGw, others>>

\* Auto-sync: provider.getOwnedNumbers() resolves with the account's numbers or
\* rejects (caught and logged); the loop then awaits getPhoneNumberByNumber.
CreateGateway_GetOwnedNumbers ==
    \E i \in DOMAIN createGw, ok \in BOOLEAN :
        /\ createGw[i].pc = "getOwnedNumbers"
        /\ createGw' = [createGw EXCEPT ![i] =
              IF ok
              THEN [@ EXCEPT !.pc = "getPhoneNumberByNumber",
                             !.num = CHOOSE n \in OwnedNumbers(createGw[i].user) : TRUE]
              ELSE [@ EXCEPT !.pc = "done", !.res = 200]]
        /\ UNCHANGED <<users, smsGateways, phoneNumbers, seq, activateGw, others>>

\* existingNumber = await storage.getPhoneNumberByNumber(num.number)
CreateGateway_GetPhoneNumberByNumber ==
    \E i \in DOMAIN createGw :
        /\ createGw[i].pc = "getPhoneNumberByNumber"
        /\ createGw' = [createGw EXCEPT ![i] =
              IF getPhoneNumberByNumber(@.num) = {}
              THEN [@ EXCEPT !.pc = "createPhoneNumber"]
              ELSE [@ EXCEPT !.pc = "done", !.res = 200]]
        /\ UNCHANGED <<users, smsGateways, phoneNumbers, seq, activateGw, others>>

\* await storage.createPhoneNumber({...}); a violation of the unique index on
\* phone_numbers.number is caught by the loop's try/catch.
CreateGateway_CreatePhoneNumber ==
    \E i \in DOMAIN createGw :
        /\ createGw[i].pc = "createPhoneNumber"
        /\ IF getPhoneNumberByNumber(createGw[i].num) = {}
           THEN /\ phoneNumbers' = phoneNumbers \cup
                      { PhoneRow(seq.phone + 1, createGw[i].num, createGw[i].gateway,
                                 createGw[i].user, NoUser) }
                /\ seq' = [seq EXCEPT !.phone = @ + 1]
           ELSE UNCHANGED <<phoneNumbers, seq>>
        /\ createGw' = [createGw EXCEPT ![i] = [@ EXCEPT !.pc = "done", !.res = 200]]
        /\ UNCHANGED <<users, smsGateways, activateGw, others>>

(***************************************************************************)
(* PATCH /api/integrations/gateways/:id/activate                           *)
(***************************************************************************)
\* requireAuth and the admin check, up to the first await inside
\* storage.setActiveSmsGateway.
ActivateGateway_Start ==
    \E i \in FirstIdle(activateGw), user \in UserIds, gatewayId \in 1..MaxGateways :
        /\ activateGw' = [activateGw EXCEPT ![i] =
              IF Role(user) # "admin"
              THEN [@ EXCEPT !.pc = "done", !.res = 403]
              ELSE [@ EXCEPT !.pc = "deactivate", !.user = user, !.gatewayId = gatewayId]]
        /\ UNCHANGED <<users, smsGateways, phoneNumbers, seq, createGw, others>>

\* setActiveSmsGateway: "First, deactivate all gateways for this admin"
ActivateGateway_Deactivate ==
    \E i \in DOMAIN activateGw :
        /\ activateGw[i].pc = "deactivate"
        /\ smsGateways' = DeactivateAll(smsGateways, activateGw[i].user)
        /\ activateGw' = [activateGw EXCEPT ![i] = [@ EXCEPT !.pc = "activate"]]
        /\ UNCHANGED <<users, phoneNumbers, seq, createGw, others>>

\* setActiveSmsGateway: "Then, activate the selected gateway"; the route answers
\* 404 when no row was returned.
ActivateGateway_Activate ==
    \E i \in DOMAIN activateGw :
        /\ activateGw[i].pc = "activate"
        /\ LET h == activateGw[i]
               activated == { g \in smsGateways : g.id = h.gatewayId /\ g.adminId = h.user }
           IN /\ smsGateways' = ActivateOne(smsGateways, h.user, h.gatewayId)
              /\ activateGw' = [activateGw EXCEPT ![i] =
                    [@ EXCEPT !.pc = "done", !.res = IF activated = {} THEN 404 ELSE 200]]
        /\ UNCHANGED <<users, phoneNumbers, seq, createGw, others>>

NextGateway ==
    \/ CreateGateway_Start
    \/ CreateGateway_TestConnection
    \/ CreateGateway_GetSmsGateways
    \/ CreateGateway_CreateSmsGateway
    \/ CreateGateway_GetOwnedNumbers
    \/ CreateGateway_GetPhoneNumberByNumber
    \/ CreateGateway_CreatePhoneNumber
    \/ ActivateGateway_Start
    \/ ActivateGateway_Deactivate
    \/ ActivateGateway_Activate

SpecGateway == InitGateway /\ [][NextGateway]_vars

(***************************************************************************)
(* C1: in every reachable state at most one gateway of a tenant is active, *)
(* and once two activation requests for two different gateways of the same *)
(* tenant have both been answered 200, exactly one gateway of that tenant  *)
(* is active.                                                              *)
(***************************************************************************)
ActiveCount(adminId) == Cardinality(getActiveSmsGateway(adminId))

C1_SingleActiveGateway ==
    /\ \A a \in Admins : ActiveCount(a) <= 1
    /\ \A i, j \in DOMAIN activateGw :
          ( /\ i # j
            /\ activateGw[i].pc = "done" /\ activateGw[i].res = 200
            /\ activateGw[j].pc = "done" /\ activateGw[j].res = 200
            /\ activateGw[i].user = activateGw[j].user
            /\ activateGw[i].gatewayId # activateGw[j].gatewayId )
          => ActiveCount(activateGw[i].user) = 1

(***************************************************************************)
(* C17: while an activation request for a gateway of the tenant is being   *)
(* processed, no step leaves the tenant, who had an active gateway before  *)
(* the step, with zero active gateways in the table that concurrent        *)
(* requests read: the swap is atomic.                                      *)
(***************************************************************************)
C17_NoWindowWithoutActiveGateway ==
    [][ \A i \in DOMAIN activateGw :
          ( /\ activateGw[i].pc \in {"deactivate", "activate"}
            /\ \E g \in getSmsGateway(activateGw[i].gatewayId) :
                  g.adminId = activateGw[i].user
            /\ ActiveCount(activateGw[i].user) >= 1 )
          => Cardinality({ g \in smsGateways' :
                             g.adminId = activateGw[i].user /\ g.isActive }) >= 1
      ]_vars

(***************************************************************************)
(* POST /api/webhooks/sms/inbound                                          *)
(***************************************************************************)
InboundUrl == "/api/webhooks/sms/inbound"

\* Body fields of an inbound webhook: Twilio/SignalWire carry From, To, Body and
\* MessageSid at top level, Telnyx carries data.payload.{from,to,text,id}.
InboundBody(shape, from, to, sid) == [shape |-> shape, From |-> from, To |-> to, Sid |-> sid]

\* "Twilio/SignalWire format": req.body.From && req.body.To && req.body.Body !== undefined
IsTwilioShape(body) ==
    body.shape = "twilio" /\ body.From # EmptyString /\ body.To # EmptyString

\* "Telnyx format": req.body.data?.payload
IsTelnyxShape(body) == body.shape = "telnyx"

\* The handler up to its first await: the rawBody check, the signature block and
\* the normalisation of the payload.
Inbound_Start(rq) ==
    \E i \in FirstIdle(inbound) :
        /\ inbound' = [inbound EXCEPT ![i] =
              IF VerifyWebhook(rq) # 0
              THEN [@ EXCEPT !.pc = "done", !.res = VerifyWebhook(rq)]
              ELSE IF IsTwilioShape(rq.body) \/ IsTelnyxShape(rq.body)
              THEN [@ EXCEPT !.pc = "getPhoneNumberByNumber",
                             !.fromNumber = formatToE164(rq.body.From),
                             !.toNumber = formatToE164(rq.body.To),
                             !.providerMessageId = rq.body.Sid]
              ELSE [@ EXCEPT !.pc = "done", !.res = 400]]
        /\ UNCHANGED <<tables, env, emitted, notWebhook, statusWh>>

\* phoneNumber = await storage.getPhoneNumberByNumber(toNumber); 404 when unknown
Inbound_GetPhoneNumberByNumber ==
    \E i \in DOMAIN inbound :
        /\ inbound[i].pc = "getPhoneNumberByNumber"
        /\ inbound' = [inbound EXCEPT ![i] =
              IF getPhoneNumberByNumber(inbound[i].toNumber) = {}
              THEN [IdleInbound EXCEPT !.pc = "done", !.res = 404]
              ELSE [@ EXCEPT !.pc = "getConversationByPhoneAndContact",
                             !.phoneNumber = getPhoneNumberByNumber(inbound[i].toNumber)]]
        /\ UNCHANGED <<tables, env, emitted, notWebhook, statusWh>>

\* conversation = await storage.getConversationByPhoneAndContact(phoneNumber.id, fromNumber)
Inbound_GetConversation ==
    \E i \in DOMAIN inbound :
        /\ inbound[i].pc = "getConversationByPhoneAndContact"
        /\ LET h == inbound[i]
               found == getConversationByPhoneAndContact(TheRow(h.phoneNumber).id, h.fromNumber)
           IN IF found = {}
              THEN inbound' = [inbound EXCEPT ![i] = [@ EXCEPT !.pc = "createConversation"]]
              ELSE \E conv \in found :
                     inbound' = [inbound EXCEPT ![i] =
                         [@ EXCEPT !.pc = "createMessage", !.conversation = {conv}]]
        /\ UNCHANGED <<tables, env, emitted, notWebhook, statusWh>>

\* conversation = await storage.createConversation({ phoneNumberId, contactNumber,
\* assignedUserId: phoneNumber.assignedTo || null, ... }); a rejected INSERT lands
\* in the handler's catch: 500.
Inbound_CreateConversation ==
    \E i \in DOMAIN inbound :
        /\ inbound[i].pc = "createConversation"
        /\ seq.conversation < MaxConversations
        /\ LET h == inbound[i]
               phone == TheRow(h.phoneNumber)
               conv == ConversationRow(seq.conversation + 1, h.fromNumber, phone.id,
                                       phone.assignedTo)
           IN IF ConversationInsertable(conv)
              THEN /\ conversations' = conversations \cup {conv}
                   /\ seq' = [seq EXCEPT !.conversation = @ + 1]
                   /\ inbound' = [inbound EXCEPT ![i] =
                         [@ EXCEPT !.pc = "createMessage", !.conversation = {conv}]]
              ELSE /\ inbound' = [inbound EXCEPT ![i] =
                         [IdleInbound EXCEPT !.pc = "done", !.res = 500]]
                   /\ UNCHANGED <<conversations, seq>>
        /\ UNCHANGED <<users, smsGateways, phoneNumbers, messages, env, emitted, notWebhook,
                       statusWh>>

\* message = await storage.createMessage({ conversationId: conversation.id,
\* direction: "inbound", status: "delivered", senderId: null, ... })
Inbound_CreateMessage ==
    \E i \in DOMAIN inbound :
        /\ inbound[i].pc = "createMessage"
        /\ seq.message < MaxMessages
        /\ LET h == inbound[i]
               msg == MessageRow(seq.message + 1, TheRow(h.conversation).id, NoUser,
                                 "inbound", "delivered", h.providerMessageId)
           IN IF MessageInsertable(msg)
              THEN /\ messages' = messages \cup {msg}
                   /\ seq' = [seq EXCEPT !.message = @ + 1]
                   /\ inbound' = [inbound EXCEPT ![i] =
                         [@ EXCEPT !.pc = "updateConversation", !.message = {msg}]]
              ELSE /\ inbound' = [inbound EXCEPT ![i] =
                         [IdleInbound EXCEPT !.pc = "done", !.res = 500]]
                   /\ UNCHANGED <<messages, seq>>
        /\ UNCHANGED <<users, smsGateways, phoneNumbers, conversations, env, emitted,
                       notWebhook, statusWh>>

\* await storage.updateConversation(conversation.id, { unreadCount:
\* (conversation.unreadCount || 0) + 1, lastMessagePreview, lastMessageAt }), then
\* the fan-out to the admin's and the assignee's connections and the TwiML answer.
Inbound_UpdateConversation ==
    \E i \in DOMAIN inbound :
        /\ inbound[i].pc = "updateConversation"
        /\ LET conversation == TheRow(inbound[i].conversation) IN
           conversations' = updateConversation(conversations, conversation.id,
               [unreadCount |-> InboundUnread(conversation), lastMessagePreview |-> "hi"])
        /\ emitted' = Emit("new_inbound_message")
        /\ LET phoneNumber == TheRow(inbound[i].phoneNumber)
               adminWsClients == MapGet(userClients, phoneNumber.adminId)
               teamMemberWsClients ==
                   IF phoneNumber.assignedTo # NoUser
                      /\ phoneNumber.assignedTo # phoneNumber.adminId
                   THEN MapGet(userClients, phoneNumber.assignedTo) ELSE {}
           IN \E before \in SUBSET (adminWsClients \cup teamMemberWsClients) :
                /\ sent' = IF Raises(adminWsClients)
                           THEN forEachSend(sent, adminWsClients, "new_inbound_message",
                                            before)
                           ELSE forEachSend(
                                    forEachSend(sent, adminWsClients,
                                                "new_inbound_message", before),
                                    teamMemberWsClients, "new_inbound_message", before)
                /\ inbound' = [inbound EXCEPT ![i] =
                      [@ EXCEPT !.pc = "done",
                                !.res = IF Raises(adminWsClients \cup teamMemberWsClients)
                                        THEN 500 ELSE 200]]
        /\ UNCHANGED <<users, smsGateways, phoneNumbers, messages, seq, env, gwHandlers,
                       apiHandlers, clients, userClients, conns, wsMsg, broken, misc,
                       statusWh>>

(***************************************************************************)
(* POST /api/webhooks/sms/status                                           *)
(***************************************************************************)
StatusUrl == "/api/webhooks/sms/status"

\* Body fields of a status webhook: MessageSid/SmsSid and MessageStatus/SmsStatus
\* (Twilio/SignalWire), or data.payload.id and data.payload.to[0].status (Telnyx).
StatusBody(shape, sid, rawStatus) == [shape |-> shape, Sid |-> sid, Status |-> rawStatus]

RawStatuses == {"queued", "accepted", "sending", "sent", "delivered", "undelivered",
                "failed", "delivery_failed", "sending_failed", "DELIVERED", "Failed",
                "read", ""}

\* String.prototype.toLowerCase on the raw statuses above
toLowerCase(str) ==
    IF str = "DELIVERED" THEN "delivered" ELSE IF str = "Failed" THEN "failed" ELSE str

\* switch (rawStatus) of the Twilio/SignalWire branch
TwilioStatus(rawStatus) ==
    IF rawStatus \in {"queued", "accepted"} THEN "pending"
    ELSE IF rawStatus \in {"sending", "sent"} THEN "sent"
    ELSE IF rawStatus = "delivered" THEN "delivered"
    ELSE IF rawStatus \in {"undelivered", "failed"} THEN "failed"
    ELSE "sent"

\* switch (rawStatus) of the Telnyx branch
TelnyxStatus(rawStatus) ==
    IF rawStatus = "queued" THEN "pending"
    ELSE IF rawStatus \in {"sending", "sent"} THEN "sent"
    ELSE IF rawStatus = "delivered" THEN "delivered"
    ELSE IF rawStatus \in {"delivery_failed", "sending_failed"} THEN "failed"
    ELSE "sent"

\* The handler up to its first await: the rawBody check, the signature block and
\* the mapping of the provider's status.
Status_Start(rq) ==
    \E i \in FirstIdle(statusWh) :
        /\ statusWh' = [statusWh EXCEPT ![i] =
              IF VerifyWebhook(rq) # 0
              THEN [@ EXCEPT !.pc = "done", !.res = VerifyWebhook(rq)]
              ELSE IF rq.body.shape = "twilio" /\ rq.body.Sid # ""
              THEN [@ EXCEPT !.pc = "getMessageBySignalwireId",
                             !.providerMessageId = rq.body.Sid,
                             !.status = TwilioStatus(toLowerCase(rq.body.Status))]
              ELSE IF rq.body.shape = "telnyx"
              THEN [@ EXCEPT !.pc = "getMessageBySignalwireId",
                             !.providerMessageId = rq.body.Sid,
                             !.status = TelnyxStatus(toLowerCase(rq.body.Status))]
              ELSE [@ EXCEPT !.pc = "done", !.res = 400]]
        /\ UNCHANGED <<tables, env, emitted, notWebhook, inbound>>

\* message = await storage.getMessageBySignalwireId(providerMessageId); an
\* unknown id is logged and answered 200
Status_GetMessage ==
    \E i \in DOMAIN statusWh :
        /\ statusWh[i].pc = "getMessageBySignalwireId"
        /\ LET found == getMessageBySignalwireId(statusWh[i].providerMessageId) IN
           IF found = {}
           THEN statusWh' = [statusWh EXCEPT ![i] =
                    [IdleStatus EXCEPT !.pc = "done", !.res = 200]]
           ELSE \E msg \in found :
                  statusWh' = [statusWh EXCEPT ![i] =
                      [@ EXCEPT !.pc = "updateMessage", !.message = {msg}]]
        /\ UNCHANGED <<tables, env, emitted, notWebhook, inbound>>

\* await storage.updateMessage(message.id, { status }), then the message_status
\* fan-out to the conversation's subscribers and the sender, and the 200.
Status_UpdateMessage ==
    \E i \in DOMAIN statusWh :
        /\ statusWh[i].pc = "updateMessage"
        /\ messages' = updateMessage(messages, TheRow(statusWh[i].message).id,
                                     StatusUpdate(statusWh[i].status))
        /\ emitted' = Emit("message_status")
        /\ LET message == TheRow(statusWh[i].message)
               subscribers == MapGet(clients, message.conversationId)
               senderWsClients == IF message.senderId # NoUser
                                  THEN MapGet(userClients, message.senderId) ELSE {}
           IN \E before \in SUBSET (subscribers \cup senderWsClients) :
                /\ sent' = IF Raises(subscribers)
                           THEN forEachSend(sent, subscribers, "message_status", before)
                           ELSE forEachSend(
                                    forEachSend(sent, subscribers, "message_status", before),
                                    senderWsClients, "message_status", before)
                /\ statusWh' = [statusWh EXCEPT ![i] =
                      [IdleStatus EXCEPT !.pc = "done",
                                         !.res = IF Raises(subscribers \cup senderWsClients)
                                                 THEN 500 ELSE 200]]
        /\ UNCHANGED <<users, smsGateways, phoneNumbers, conversations, seq, env,
                       gwHandlers, apiHandlers, clients, userClients, conns, wsMsg, broken,
                       misc, inbound>>

(***************************************************************************)
(* POST /api/conversations: one await (createConversation), so one step.   *)
(* A missing contactNumber is answered 400, a rejected INSERT 500.         *)
(***************************************************************************)
PostConversation(user, contactNumber, phoneNumberId, assignedUserId) ==
    /\ seq.conversation < MaxConversations
    /\ LET conv == ConversationRow(seq.conversation + 1, formatToE164(contactNumber),
                       phoneNumberId,
                       IF Role(user) = "admin" THEN assignedUserId ELSE user)
       IN IF contactNumber # EmptyString /\ ConversationInsertable(conv)
          THEN /\ conversations' = conversations \cup {conv}
               /\ seq' = [seq EXCEPT !.conversation = @ + 1]
          ELSE UNCHANGED <<conversations, seq>>
    /\ UNCHANGED <<users, smsGateways, phoneNumbers, messages, env, emitted, notWebhook,
                   webhooks>>


(***************************************************************************)
(* Inbound webhooks and POST /api/conversations, interleaved.              *)
(***************************************************************************)
\* Unsigned JSON deliveries to A1's number from one contact, written in the two
\* ways a provider may write it.
TenDigits(e164) == SubSeq(e164, 3, Len(e164))

UnsignedInbound ==
    { WebhookRequest(InboundUrl, TRUE, InboundBody(shape, from, MainLine, "SM-in"),
                     NoHeader, NoHeader)
      : shape \in {"twilio", "telnyx"}, from \in {Contact, TenDigits(Contact)} }

NextInbound ==
    \/ \E rq \in UnsignedInbound : Inbound_Start(rq)
    \/ Inbound_GetPhoneNumberByNumber
    \/ Inbound_GetConversation
    \/ Inbound_CreateConversation
    \/ Inbound_CreateMessage
    \/ Inbound_UpdateConversation
    \/ \E user \in {"A1", "M1"}, assignedUserId \in {NoUser, "M1"} :
          PostConversation(user, Contact, 1, assignedUserId)

InitInbound == InitTables /\ env = NoSecrets /\ InitHandlers

SpecInbound == InitInbound /\ [][NextInbound]_vars

(***************************************************************************)
(* C2: in every reachable state there is at most one conversation per      *)
(* (phoneNumberId, contactNumber) pair.                                    *)
(***************************************************************************)
C2_OneConversationPerPair ==
    \A c1, c2 \in conversations :
        ( /\ c1.phoneNumberId # NoId
          /\ c1.phoneNumberId = c2.phoneNumberId
          /\ c1.contactNumber = c2.contactNumber ) => c1.id = c2.id

(***************************************************************************)
(* C3: with no mark-read in between, once every inbound webhook handler    *)
(* has completed, each conversation's unreadCount equals the number of     *)
(* inbound messages appended to it (it grew by one per webhook).           *)
(***************************************************************************)
InboundQuiet == \A i \in DOMAIN inbound : inbound[i].pc \in {"idle", "done"}

InboundMessages(conversationId) ==
    { m \in getMessages(conversationId) : m.direction = "inbound" }

C3_NoLostUnreadIncrement ==
    InboundQuiet =>
        \A c \in conversations : c.unreadCount = Cardinality(InboundMessages(c.id))


(***************************************************************************)
(* Both webhook endpoints under every combination of body encoding,        *)
(* signature headers and configured secrets.                               *)
(***************************************************************************)
Secrets ==
    [TWILIO_AUTH_TOKEN |-> "twilio-token", SIGNALWIRE_TOKEN |-> "signalwire-token",
     ENCRYPTION_KEY |-> NoSecret]

\* The header a provider holding the named key computes for this request.
TwilioHeader(key, url) == Hmac("sha1-base64", key, <<url, "payload">>)
SignalWireHeader(key) == Hmac("sha256-hex", key, <<"payload">>)

\* Header pairs: none, an empty one, the provider's own, a forger's, and a
\* genuine Twilio header beside a forged SignalWire one.
HeaderPairs(url) ==
    { <<NoHeader, NoHeader>>,
      <<EmptyHeader, NoHeader>>, <<NoHeader, EmptyHeader>>,
      <<TwilioHeader("twilio-token", url), NoHeader>>,
      <<TwilioHeader("forged", url), NoHeader>>,
      <<NoHeader, SignalWireHeader("signalwire-token")>>,
      <<NoHeader, SignalWireHeader("forged")>>,
      <<TwilioHeader("twilio-token", url), SignalWireHeader("forged")>> }

InboundRequests ==
    { WebhookRequest(InboundUrl, json, InboundBody(shape, Contact, SalesLine, "SM-in"),
                     h[1], h[2])
      : json \in BOOLEAN, shape \in {"twilio", "telnyx", "unknown"},
        h \in HeaderPairs(InboundUrl) }

StatusRequests ==
    { WebhookRequest(StatusUrl, json, StatusBody(shape, "SM-out", raw), h[1], h[2])
      : json \in BOOLEAN, shape \in {"twilio", "telnyx", "unknown"},
        raw \in {"delivered", "failed"}, h \in HeaderPairs(StatusUrl) }

\* A conversation on A1's number with one outbound message the provider accepted.
InitWithMessage ==
    /\ users = SeedUsers
    /\ smsGateways = { GatewayRow(1, "A1", "telnyx", TRUE, Sealed),
                       GatewayRow(2, "A1", "twilio", FALSE, Sealed),
                       GatewayRow(3, "A2", "signalwire", TRUE, Sealed) }
    /\ phoneNumbers = { PhoneRow(1, MainLine, 1, "A1", "M1"),
                        PhoneRow(2, SalesLine, 3, "A2", NoUser) }
    /\ conversations = { ConversationRow(1, Contact, 1, "M1") }
    /\ messages = { MessageRow(1, 1, "A1", "outbound", "sent", "SM-out") }
    /\ seq = [gateway |-> 3, phone |-> 2, conversation |-> 1, message |-> 1]
    /\ emitted = NoEvents

InitWebhook == InitWithMessage /\ env \in {NoSecrets, Secrets} /\ InitHandlers

NextWebhook ==
    \/ \E rq \in InboundRequests : Inbound_Start(rq)
    \/ Inbound_GetPhoneNumberByNumber
    \/ Inbound_GetConversation
    \/ Inbound_CreateConversation
    \/ Inbound_CreateMessage
    \/ Inbound_UpdateConversation
    \/ \E rq \in StatusRequests : Status_Start(rq)
    \/ Status_GetMessage
    \/ Status_UpdateMessage

SpecWebhook == InitWebhook /\ [][NextWebhook]_vars

(***************************************************************************)
(* C4: on both webhook endpoints, a request that carries an                *)
(* X-Twilio-Signature or X-SignalWire-Signature header for which the       *)
(* server-side secret is unset or the computed HMAC differs is answered    *)
(* 401 in the step that receives it, with no table and no fan-out changed; *)
(* a request carrying neither header is not refused at the signature       *)
(* block: its payload goes on to be processed.                             *)
(***************************************************************************)
Present(header) == header # NoHeader

TwilioMismatch(rq) ==
    /\ Present(rq.twilioSignature)
    /\ \/ env.TWILIO_AUTH_TOKEN = NoSecret
       \/ rq.twilioSignature # TwilioHeader(env.TWILIO_AUTH_TOKEN, rq.originalUrl)

SignalWireMismatch(rq) ==
    /\ Present(rq.signalWireSignature)
    /\ \/ env.SIGNALWIRE_TOKEN = NoSecret
       \/ rq.signalWireSignature # SignalWireHeader(env.SIGNALWIRE_TOKEN)

Unsigned(rq) == ~Present(rq.twilioSignature) /\ ~Present(rq.signalWireSignature)

\* The handler that the step started answers with the given status at once.
AnsweredAtOnce(pool, poolNext, code) ==
    \E i \in FirstIdle(pool) : poolNext[i].pc = "done" /\ poolNext[i].res = code

\* The handler that the step started went on into the payload.
Processing(pool, poolNext) ==
    \E i \in FirstIdle(pool) : poolNext[i].pc \notin {"idle", "done"}

C4_SignatureGate ==
    [][ /\ \A rq \in InboundRequests :
             Inbound_Start(rq) =>
               /\ (TwilioMismatch(rq) \/ SignalWireMismatch(rq)) =>
                     AnsweredAtOnce(inbound, inbound', 401)
               /\ (Unsigned(rq) /\ rq.body.shape # "unknown") =>
                     Processing(inbound, inbound')
        /\ \A rq \in StatusRequests :
             Status_Start(rq) =>
               /\ (TwilioMismatch(rq) \/ SignalWireMismatch(rq)) =>
                     AnsweredAtOnce(statusWh, statusWh', 401)
               /\ (Unsigned(rq) /\ rq.body.shape # "unknown") =>
                     Processing(statusWh, statusWh')
      ]_vars

(***************************************************************************)
(* C12: an inbound-message webhook delivered form-encoded in the           *)
(* Twilio/SignalWire shape, carrying no signature header and addressed to  *)
(* a provisioned phone number, is not rejected for a missing request body: *)
(* the step that receives it answers nothing and hands the payload to the  *)
(* lookup of the addressed number, from where the handler stores the one   *)
(* inbound message and answers 200.                                        *)
(***************************************************************************)
C12_FormEncodedInboundAccepted ==
    [][ \A rq \in InboundRequests :
          ( /\ ~rq.rawBody
            /\ IsTwilioShape(rq.body)
            /\ rq.twilioSignature = NoHeader /\ rq.signalWireSignature = NoHeader
            /\ getPhoneNumberByNumber(formatToE164(rq.body.To)) # {}
            /\ Inbound_Start(rq) )
          => \E i \in FirstIdle(inbound) :
                /\ inbound'[i].pc = "getPhoneNumberByNumber"
                /\ inbound'[i].res # 400
      ]_vars

(***************************************************************************)
(* POST /api/conversations/:id/messages                                    *)
(***************************************************************************)
EmitAll(types) == [t \in EventTypes |-> IF t \in types THEN emitted[t] + 1 ELSE emitted[t]]

\* What provider.sendSms resolves with (the provider's status word), or "throws".
SmsOutcomes == {"queued", "accepted", "sent", "failed", "throws"}

\* The id the provider gives the message it accepted for the i-th request.
ProviderSid(i) == "SM-out-" \o ToString(i)

\* if (conversation.phoneNumberId) { ... } else straight to createMessage
AfterAccess(conversation) ==
    IF conversation.phoneNumberId # NoId THEN "getPhoneNumber" ELSE "createMessage"

\* requireAuth, the content check, then the await of getConversation.
Send_Start(user, id, content) ==
    \E i \in FirstIdle(send) :
        /\ send' = [send EXCEPT ![i] =
              IF ~content THEN [@ EXCEPT !.pc = "done", !.res = 400]
              ELSE [@ EXCEPT !.pc = "getConversation", !.user = user, !.id = id]]
        /\ UNCHANGED <<tables, env, emitted, gwHandlers, webhooks, del, assignPhone,
                       unassignPhone, sockets, misc>>

\* conversation = await storage.getConversation(id); 404 when there is none
Send_GetConversation ==
    \E i \in DOMAIN send :
        /\ send[i].pc = "getConversation"
        /\ LET found == getConversation(send[i].id) IN
           send' = [send EXCEPT ![i] =
              IF found = {} THEN [@ EXCEPT !.pc = "done", !.res = 404]
              ELSE IF Role(@.user) # "admin"
              THEN [@ EXCEPT !.pc = "getPhoneNumbersAssignedToUser", !.conversation = found]
              ELSE [@ EXCEPT !.pc = AfterAccess(TheRow(found)), !.conversation = found]]
        /\ UNCHANGED <<tables, env, emitted, gwHandlers, webhooks, del, assignPhone,
                       unassignPhone, sockets, misc>>

\* assignedPhones = await storage.getPhoneNumbersAssignedToUser(req.user.id); 403
\* unless the conversation's number is among them
Send_GetAssignedPhones ==
    \E i \in DOMAIN send :
        /\ send[i].pc = "getPhoneNumbersAssignedToUser"
        /\ LET conversation == TheRow(send[i].conversation)
               phoneIds == { p.id : p \in getPhoneNumbersAssignedToUser(send[i].user) }
           IN send' = [send EXCEPT ![i] =
                 IF conversation.phoneNumberId = NoId \/ conversation.phoneNumberId \notin phoneIds
                 THEN [@ EXCEPT !.pc = "done", !.res = 403]
                 ELSE [@ EXCEPT !.pc = AfterAccess(conversation)]]
        /\ UNCHANGED <<tables, env, emitted, gwHandlers, webhooks, del, assignPhone,
                       unassignPhone, sockets, misc>>

\* phoneNumber = await storage.getPhoneNumber(conversation.phoneNumberId)
Send_GetPhoneNumber ==
    \E i \in DOMAIN send :
        /\ send[i].pc = "getPhoneNumber"
        /\ LET conversation == TheRow(send[i].conversation)
               found == getPhoneNumber(conversation.phoneNumberId)
           IN send' = [send EXCEPT ![i] =
                 IF /\ found # {}
                    /\ TheRow(found).gatewayId # NoId
                    /\ conversation.contactNumber # EmptyString
                 THEN [@ EXCEPT !.pc = "getSmsGateway", !.phoneNumber = found]
                 ELSE [@ EXCEPT !.pc = "createMessage"]]
        /\ UNCHANGED <<tables, env, emitted, gwHandlers, webhooks, del, assignPhone,
                       unassignPhone, sockets, misc>>

\* gateway = await storage.getSmsGateway(phoneNumber.gatewayId), then
\* createSmsProvider(gateway) outside the try around sendSms: when it throws the
\* request ends in the route's catch with 500.
Send_GetSmsGateway ==
    \E i \in DOMAIN send :
        /\ send[i].pc = "getSmsGateway"
        /\ LET found == getSmsGateway(TheRow(send[i].phoneNumber).gatewayId) IN
           send' = [send EXCEPT ![i] =
              IF found = {} THEN [@ EXCEPT !.pc = "createMessage"]
              ELSE LET provider == createSmsProvider(TheRow(found), getEncryptionKey(env)) IN
                   IF ~provider.ok THEN [@ EXCEPT !.pc = "done", !.res = 500]
                   ELSE IF isConfigured(provider) THEN [@ EXCEPT !.pc = "sendSms"]
                   ELSE [@ EXCEPT !.pc = "createMessage"]]
        /\ UNCHANGED <<tables, env, emitted, gwHandlers, webhooks, del, assignPhone,
                       unassignPhone, sockets, misc>>

\* retryWithBackoff(fn, maxAttempts = 3): fn is called again after it threw on
\* attempt number `attempt` (counted from 0) while attempt < maxAttempts - 1.
maxAttempts == 3
retryWithBackoff(threw, attempt) == threw /\ attempt < maxAttempts - 1

\* sendSms as it would be inside retryWithBackoff, the way getOwnedNumbers is.
sendSmsRetried(outcome, attempt) ==
    IF retryWithBackoff(outcome = "throws", attempt) THEN "sendSms" ELSE "createMessage"

\* Where the handler stands after one fetch of provider.sendSms (Twilio, SignalWire
\* and Telnyx alike): sendSms awaits a single fetch and throws when !response.ok or
\* when fetch rejects, and the route's catch goes on to createMessage.
sendSms(outcome, attempt) == "createMessage"

\* smsResult = await provider.sendSms(...) inside try/catch:
\*   smsStatus = smsResult.status === "queued" || smsResult.status === "sent"
\*               ? "sent" : "failed";   catch (smsError) { smsStatus = "failed" }
Send_SendSms ==
    \E i \in DOMAIN send, outcome \in SmsOutcomes :
        /\ send[i].pc = "sendSms"
        /\ send' = [send EXCEPT ![i] =
              IF outcome = "throws"
              THEN [@ EXCEPT !.pc = sendSms(outcome, send[i].fetches),
                             !.fetches = @ + 1, !.smsStatus = "failed",
                             !.smsError = TRUE]
              ELSE [@ EXCEPT !.pc = sendSms(outcome, send[i].fetches),
                             !.fetches = @ + 1,
                             !.providerMessageId = ProviderSid(i),
                             !.smsStatus = IF outcome \in {"queued", "sent"}
                                           THEN "sent" ELSE "failed"]]
        /\ UNCHANGED <<tables, env, emitted, gwHandlers, webhooks, del, assignPhone,
                       unassignPhone, sockets, misc>>

\* message = await storage.createMessage({ conversationId: id, senderId,
\* direction: "outbound", status: smsStatus, signalwireMessageId }); a rejected
\* INSERT lands in the route's catch: 500.
Send_CreateMessage ==
    \E i \in DOMAIN send :
        /\ send[i].pc = "createMessage"
        /\ seq.message < MaxMessages
        /\ LET h == send[i]
               msg == MessageRow(seq.message + 1, h.id, h.user, "outbound", h.smsStatus,
                                 h.providerMessageId)
           IN IF MessageInsertable(msg)
              THEN /\ messages' = messages \cup {msg}
                   /\ seq' = [seq EXCEPT !.message = @ + 1]
                   /\ send' = [send EXCEPT ![i] =
                         [@ EXCEPT !.pc = "updateConversation", !.message = {msg}]]
              ELSE /\ send' = [send EXCEPT ![i] = [@ EXCEPT !.pc = "done", !.res = 500]]
                   /\ UNCHANGED <<messages, seq>>
        /\ UNCHANGED <<users, smsGateways, phoneNumbers, conversations, env, emitted,
                       gwHandlers, webhooks, del, assignPhone, unassignPhone, sockets,
                       misc>>

\* await storage.updateConversation(id, { lastMessageAt, lastMessagePreview }), then
\* broadcastToConversation(new_message) and broadcastToUser(conversation_updated)
Send_UpdateConversation ==
    \E i \in DOMAIN send :
        /\ send[i].pc = "updateConversation"
        /\ conversations' = updateConversation(conversations, send[i].id,
                                               [lastMessagePreview |-> "out"])
        /\ emitted' = EmitAll({"new_message", "conversation_updated"})
        /\ sent' = broadcastToUser(
                       broadcastToConversation(sent, send[i].id, "new_message"),
                       send[i].user, "conversation_updated")
        /\ send' = [send EXCEPT ![i] =
              IF TheRow(@.conversation).phoneNumberId # NoId
              THEN [@ EXCEPT !.pc = "notify"]
              ELSE [@ EXCEPT !.pc = "done", !.res = 200]]
        /\ UNCHANGED <<users, smsGateways, phoneNumbers, messages, seq, env, gwHandlers,
                       webhooks, del, assignPhone, unassignPhone, clients, userClients,
                       conns, wsMsg, broken, misc>>

\* phoneNumber = await storage.getPhoneNumber(conversation.phoneNumberId); the
\* assignee (sender admin) or the owning admin (sender team member) is notified;
\* res.json(message)
Send_Notify ==
    \E i \in DOMAIN send :
        /\ send[i].pc = "notify"
        /\ LET h == send[i]
               found == getPhoneNumber(TheRow(h.conversation).phoneNumberId)
               notified ==
                   \E p \in found :
                      \/ Role(h.user) = "admin" /\ p.assignedTo # NoUser /\ p.assignedTo # h.user
                      \/ Role(h.user) = "team_member" /\ p.adminId # NoUser /\ p.adminId # h.user
               other == IF Role(h.user) = "admin" THEN TheRow(found).assignedTo
                        ELSE TheRow(found).adminId
           IN /\ emitted' = IF notified THEN EmitAll({"new_message"}) ELSE emitted
              /\ sent' = IF notified THEN broadcastToUser(sent, other, "new_message")
                         ELSE sent
        /\ send' = [send EXCEPT ![i] = [@ EXCEPT !.pc = "done", !.res = 200]]
        /\ UNCHANGED <<tables, env, gwHandlers, webhooks, del, assignPhone, unassignPhone,
                       clients, userClients, conns, wsMsg, broken, misc>>

(***************************************************************************)
(* DELETE /api/conversations/:id                                           *)
(***************************************************************************)
Delete_Start(user, id) ==
    \E i \in FirstIdle(del) :
        /\ del' = [del EXCEPT ![i] = [@ EXCEPT !.pc = "getConversation", !.user = user,
                                                !.id = id]]
        /\ UNCHANGED <<tables, env, emitted, gwHandlers, webhooks, send, assignPhone,
                       unassignPhone, sockets, misc>>

\* conversation = await storage.getConversation(id): 404; 403 unless the user is
\* an admin or the conversation's assignedUserId
Delete_GetConversation ==
    \E i \in DOMAIN del :
        /\ del[i].pc = "getConversation"
        /\ LET found == getConversation(del[i].id) IN
           del' = [del EXCEPT ![i] =
              IF found = {} THEN [@ EXCEPT !.pc = "done", !.res = 404]
              ELSE IF Role(@.user) # "admin" /\ TheRow(found).assignedUserId # @.user
              THEN [@ EXCEPT !.pc = "done", !.res = 403]
              ELSE [@ EXCEPT !.pc = "deleteMessages"]]
        /\ UNCHANGED <<tables, env, emitted, gwHandlers, webhooks, send, assignPhone,
                       unassignPhone, sockets, misc>>

\* deleteConversation, first statement: DELETE FROM messages WHERE conversation_id = $1
Delete_DeleteMessages ==
    \E i \in DOMAIN del :
        /\ del[i].pc = "deleteMessages"
        /\ messages' = messages \ getMessages(del[i].id)
        /\ del' = [del EXCEPT ![i] = [@ EXCEPT !.pc = "deleteConversation"]]
        /\ UNCHANGED <<users, smsGateways, phoneNumbers, conversations, seq, env, emitted,
                       gwHandlers, webhooks, send, assignPhone, unassignPhone, sockets,
                       misc>>

\* deleteConversation, second statement: DELETE FROM conversations WHERE id = $1,
\* rejected by messages.conversation_id while a message still refers to the row
Delete_DeleteConversation ==
    \E i \in DOMAIN del :
        /\ del[i].pc = "deleteConversation"
        /\ IF getMessages(del[i].id) = {}
           THEN /\ conversations' = conversations \ getConversation(del[i].id)
                /\ del' = [del EXCEPT ![i] = [@ EXCEPT !.pc = "done", !.res = 200]]
           ELSE /\ UNCHANGED conversations
                /\ del' = [del EXCEPT ![i] = [@ EXCEPT !.pc = "done", !.res = 500]]
        /\ UNCHANGED <<users, smsGateways, phoneNumbers, messages, seq, env, emitted,
                       gwHandlers, webhooks, send, assignPhone, unassignPhone, sockets,
                       misc>>

(***************************************************************************)
(* Status webhooks for one outbound message.                               *)
(***************************************************************************)
UnsignedStatus ==
    { WebhookRequest(StatusUrl, TRUE, StatusBody(shape, "SM-out", raw), NoHeader, NoHeader)
      : shape \in {"twilio", "telnyx"}, raw \in RawStatuses }

InitStatus == InitWithMessage /\ env = NoSecrets /\ InitHandlers

NextStatus ==
    \/ \E rq \in UnsignedStatus : Status_Start(rq)
    \/ Status_GetMessage
    \/ Status_UpdateMessage

SpecStatus == InitStatus /\ [][NextStatus]_vars

(***************************************************************************)
(* C9: the stored status of a message never moves backwards along          *)
(* pending -> sent -> delivered (pending may go straight to delivered),    *)
(* and once it is failed no step changes it.                               *)
(***************************************************************************)
StatusRank(status) ==
    IF status = "pending" THEN 0 ELSE IF status = "sent" THEN 1
    ELSE IF status = "delivered" THEN 2 ELSE 3

C9_StatusMonotonic ==
    [][ \A m \in messages : \A n \in messages' :
          n.id = m.id =>
            /\ m.status = "failed" => n.status = "failed"
            /\ n.status # "failed" => StatusRank(n.status) >= StatusRank(m.status) ]_vars

(***************************************************************************)
(* C18: of two status webhooks for the same provider message id, the one   *)
(* delivered second decides the stored status once both handlers have      *)
(* completed, in every interleaving: the handler of the first delivery     *)
(* (the lower slot) does not change the stored status by completing after  *)
(* the handler of the second delivery has applied its status.              *)
(***************************************************************************)
C18_LastDeliveryWins ==
    [][ \A i, j \in DOMAIN statusWh :
          ( /\ i < j
            /\ statusWh[j].pc = "done" /\ statusWh[j].res = 200
            /\ statusWh[i].pc = "updateMessage" /\ statusWh'[i].pc = "done" )
          => messages' = messages
      ]_vars

(***************************************************************************)
(* Sends racing with each other and with a delete of the conversation.     *)
(***************************************************************************)
InitSend == InitWithMessage /\ env = NoSecrets /\ InitHandlers

NextSend ==
    \/ \E user \in {"A1", "M1", "M2"}, id \in 1..2, content \in BOOLEAN :
          Send_Start(user, id, content)
    \/ Send_GetConversation
    \/ Send_GetAssignedPhones
    \/ Send_GetPhoneNumber
    \/ Send_GetSmsGateway
    \/ Send_SendSms
    \/ Send_CreateMessage
    \/ Send_UpdateConversation
    \/ Send_Notify
    \/ \E user \in {"A1", "M2"} : Delete_Start(user, 1)
    \/ Delete_GetConversation
    \/ Delete_DeleteMessages
    \/ Delete_DeleteConversation

SpecSend == InitSend /\ [][NextSend]_vars

(***************************************************************************)
(* C10: every send request that got past the content, existence and access *)
(* checks and has been answered, was answered 200 with the one outbound    *)
(* message it stored for the conversation; when the provider's send call   *)
(* raised, that message carries status failed.                             *)
(***************************************************************************)
C10_SendPersistsMessage ==
    \A i \in DOMAIN send :
        (send[i].pc = "done" /\ send[i].res \notin {400, 403, 404}) =>
            /\ send[i].res = 200
            /\ Cardinality(send[i].message) = 1
            /\ \A m \in send[i].message :
                  /\ m.conversationId = send[i].id
                  /\ m.direction = "outbound"
                  /\ send[i].smsError => m.status = "failed"

(***************************************************************************)
(* C26: in every state every message belongs to an existing conversation,  *)
(* and a DELETE of a conversation that has removed the conversation's      *)
(* messages ends with the conversation removed together with all of its    *)
(* messages, also when a send appends a message to the conversation in     *)
(* between.                                                                *)
(***************************************************************************)
C26_ConversationDeletedWithMessages ==
    [][ /\ \A m \in messages' : \E c \in conversations' : c.id = m.conversationId
        /\ \A i \in DOMAIN del :
             (del[i].pc = "deleteConversation" /\ del'[i].pc = "done") =>
                /\ \A c \in conversations' : c.id # del[i].id
                /\ \A m \in messages' : m.conversationId # del[i].id
      ]_vars

(***************************************************************************)
(* Sends through each of the three adapters: gateway 1, which carries the  *)
(* conversation's number, is a Twilio, a SignalWire or a Telnyx gateway.   *)
(***************************************************************************)
InitOutbound ==
    /\ users = SeedUsers
    /\ \E p \in Providers :
          smsGateways = { GatewayRow(1, "A1", p, TRUE, Sealed),
                          GatewayRow(3, "A2", "signalwire", TRUE, Sealed) }
    /\ phoneNumbers = { PhoneRow(1, MainLine, 1, "A1", "M1"),
                        PhoneRow(2, SalesLine, 3, "A2", NoUser) }
    /\ conversations = { ConversationRow(1, Contact, 1, "M1") }
    /\ messages = {}
    /\ seq = [gateway |-> 3, phone |-> 2, conversation |-> 1, message |-> 0]
    /\ emitted = NoEvents
    /\ env = NoSecrets
    /\ InitHandlers

NextOutbound ==
    \/ \E user \in {"A1", "M1"}, content \in BOOLEAN : Send_Start(user, 1, content)
    \/ Send_GetConversation
    \/ Send_GetAssignedPhones
    \/ Send_GetPhoneNumber
    \/ Send_GetSmsGateway
    \/ Send_SendSms
    \/ Send_CreateMessage
    \/ Send_UpdateConversation
    \/ Send_Notify

SpecOutbound == InitOutbound /\ [][NextOutbound]_vars

(***************************************************************************)
(* C11: for each outbound send request the provider's send endpoint is     *)
(* invoked at most once, whichever adapter the gateway uses and also when  *)
(* the invocation fails: neither sendSms nor the route invokes it again.   *)
(***************************************************************************)
C11_SendInvokedAtMostOnce ==
    \A i \in DOMAIN send : send[i].fetches <= 1

\* A request whose one invocation failed and that was answered all the same.
C11_FailedSendAnswered ==
    \E i \in DOMAIN send :
        /\ send[i].pc = "done"
        /\ send[i].smsError
        /\ send[i].fetches = 1
        /\ send[i].res = 200

(***************************************************************************)
(* The provider factory on every form the credentials column can hold,     *)
(* under every encryption key the process can run with.                    *)
(***************************************************************************)
Keys == {DevKey, "k1", "k2"}
Ciphertexts == { Cipher(k, "iv", p) : k \in Keys, p \in Plaintexts }
AuthTags == { AuthTag(k, "iv", p) : k \in Keys, p \in Plaintexts }

StoredCredentials ==
    { Text(form, NoObject) : form \in {"empty", "blank", "text", "brace"} }
    \cup { Plaintext(label) : label \in {"complete", "partial"} }
    \cup { Text("json", JsonObject(iv, data, tag, "none"))
           : iv \in {"", "iv"}, data \in Ciphertexts \cup {NoHex},
             tag \in AuthTags \cup {NoHex} }

InitFactory ==
    /\ users = SeedUsers
    /\ \E provider \in Providers, credentials \in StoredCredentials :
          smsGateways = { GatewayRow(1, "A1", provider, TRUE, credentials) }
    /\ phoneNumbers = {}
    /\ conversations = {}
    /\ messages = {}
    /\ seq = [gateway |-> 1, phone |-> 0, conversation |-> 0, message |-> 0]
    /\ env \in { [NoSecrets EXCEPT !.ENCRYPTION_KEY = k] : k \in {NoSecret, "k1", "k2"} }
    /\ emitted = NoEvents
    /\ InitHandlers

\* const provider = createSmsProvider(gateway) on a stored gateway
CreateSmsProvider(gatewayId) ==
    /\ factory.pc = "idle"
    /\ \E gateway \in getSmsGateway(gatewayId) :
          factory' = [pc |-> "done", gatewayId |-> gatewayId, gateway |-> {gateway},
                      adapter |-> createSmsProvider(gateway, getEncryptionKey(env))]
    /\ UNCHANGED <<tables, env, emitted, gwHandlers, webhooks, apiHandlers, sockets,
                   listing, teamDel, recent, late>>

NextFactory == \E gatewayId \in 1..MaxGateways : CreateSmsProvider(gatewayId)

SpecFactory == InitFactory /\ [][NextFactory]_vars

(***************************************************************************)
(* C8: createSmsProvider on a gateway whose credentials are a sealed       *)
(* envelope (iv, data and tag present) that does not decrypt under the     *)
(* process's key fails with an error: no adapter is returned.              *)
(***************************************************************************)
Undecryptable(gateway) ==
    /\ gateway.credentials.form = "json"
    /\ LooksSealed(gateway.credentials.object)
    /\ ~Authentic(gateway.credentials.object, getEncryptionKey(env))

C8_UndecryptableFails ==
    factory.pc = "done" =>
        \A gateway \in getSmsGateway(factory.gatewayId) :
            Undecryptable(gateway) => ~factory.adapter.ok


(***************************************************************************)
(* POST /api/team/:id/assignments                                          *)
(***************************************************************************)
\* requireAuth, requireAdmin, the phoneNumberId check, then the await of getUser
Assign_Start(adminId, teamMemberId, phoneNumberId) ==
    \E i \in FirstIdle(assignPhone) :
        /\ assignPhone' = [assignPhone EXCEPT ![i] =
              IF Role(adminId) # "admin" THEN [IdleAssign EXCEPT !.pc = "done", !.res = 403]
              ELSE IF phoneNumberId = NoId THEN [IdleAssign EXCEPT !.pc = "done", !.res = 400]
              ELSE [@ EXCEPT !.pc = "getUser", !.adminId = adminId,
                             !.teamMemberId = teamMemberId,
                             !.phoneNumberId = phoneNumberId]]
        /\ UNCHANGED <<tables, env, emitted, gwHandlers, webhooks, send, del, unassignPhone,
                       sockets, misc>>

\* teamMember = await storage.getUser(teamMemberId): 404, or 400 for an admin
Assign_GetUser ==
    \E i \in DOMAIN assignPhone :
        /\ assignPhone[i].pc = "getUser"
        /\ LET teamMember == getUser(assignPhone[i].teamMemberId) IN
           assignPhone' = [assignPhone EXCEPT ![i] =
              IF teamMember = {} THEN [IdleAssign EXCEPT !.pc = "done", !.res = 404]
              ELSE IF TheRow(teamMember).role = "admin"
              THEN [IdleAssign EXCEPT !.pc = "done", !.res = 400]
              ELSE [@ EXCEPT !.pc = "getPhoneNumber"]]
        /\ UNCHANGED <<tables, env, emitted, gwHandlers, webhooks, send, del, unassignPhone,
                       sockets, misc>>

\* phoneNumber = await storage.getPhoneNumber(phoneNumberId): 404; a number
\* without gateway is answered 403 without another await
Assign_GetPhoneNumber ==
    \E i \in DOMAIN assignPhone :
        /\ assignPhone[i].pc = "getPhoneNumber"
        /\ LET found == getPhoneNumber(assignPhone[i].phoneNumberId) IN
           assignPhone' = [assignPhone EXCEPT ![i] =
              IF found = {} THEN [IdleAssign EXCEPT !.pc = "done", !.res = 404]
              ELSE IF TheRow(found).gatewayId = NoId
              THEN [IdleAssign EXCEPT !.pc = "done", !.res = 403]
              ELSE [@ EXCEPT !.pc = "getSmsGateway", !.phoneNumber = found]]
        /\ UNCHANGED <<tables, env, emitted, gwHandlers, webhooks, send, del, unassignPhone,
                       sockets, misc>>

\* gateway = await storage.getSmsGateway(phoneNumber.gatewayId): 403 unless it is
\* the admin's; 409 when the number read above is assigned to somebody else
Assign_GetSmsGateway ==
    \E i \in DOMAIN assignPhone :
        /\ assignPhone[i].pc = "getSmsGateway"
        /\ LET h == assignPhone[i]
               phoneNumber == TheRow(h.phoneNumber)
               gateway == getSmsGateway(phoneNumber.gatewayId)
           IN assignPhone' = [assignPhone EXCEPT ![i] =
                 IF gateway = {} \/ TheRow(gateway).adminId # h.adminId
                 THEN [IdleAssign EXCEPT !.pc = "done", !.res = 403]
                 ELSE IF phoneNumber.assignedTo # NoUser
                         /\ phoneNumber.assignedTo # h.teamMemberId
                 THEN [IdleAssign EXCEPT !.pc = "done", !.res = 409]
                 ELSE [@ EXCEPT !.pc = "assignPhoneNumber"]]
        /\ UNCHANGED <<tables, env, emitted, gwHandlers, webhooks, send, del, unassignPhone,
                       sockets, misc>>

\* UPDATE phone_numbers SET assigned_to = $2 WHERE id = $1
assignPhoneNumber(table, phoneNumberId, teamMemberId) ==
    { IF p.id = phoneNumberId THEN [p EXCEPT !.assignedTo = teamMemberId] ELSE p
      : p \in table }

\* UPDATE phone_numbers SET assigned_to = NULL WHERE id = $1
unassignPhoneNumber(table, phoneNumberId) ==
    { IF p.id = phoneNumberId THEN [p EXCEPT !.assignedTo = NoUser] ELSE p : p \in table }

\* await storage.assignPhoneNumber(phoneNumberId, teamMemberId), then
\* broadcastToUser(teamMemberId, phone_assignment_changed) and the 200
Assign_AssignPhoneNumber ==
    \E i \in DOMAIN assignPhone :
        /\ assignPhone[i].pc = "assignPhoneNumber"
        /\ phoneNumbers' = assignPhoneNumber(phoneNumbers, assignPhone[i].phoneNumberId,
                                             assignPhone[i].teamMemberId)
        /\ emitted' = EmitAll({"phone_assignment_changed"})
        /\ sent' = broadcastToUser(sent, assignPhone[i].teamMemberId,
                                   "phone_assignment_changed")
        /\ assignPhone' = [assignPhone EXCEPT ![i] =
              [IdleAssign EXCEPT !.pc = "done", !.res = 200]]
        /\ UNCHANGED <<users, smsGateways, conversations, messages, seq, env, gwHandlers,
                       webhooks, send, del, unassignPhone, clients, userClients, conns,
                       wsMsg, broken, misc>>

(***************************************************************************)
(* DELETE /api/team/:id/assignments/:phoneNumberId                         *)
(***************************************************************************)
Unassign_Start(adminId, teamMemberId, phoneNumberId) ==
    \E i \in FirstIdle(unassignPhone) :
        /\ unassignPhone' = [unassignPhone EXCEPT ![i] =
              IF Role(adminId) # "admin" THEN [IdleAssign EXCEPT !.pc = "done", !.res = 403]
              ELSE [@ EXCEPT !.pc = "getPhoneNumber", !.adminId = adminId,
                             !.teamMemberId = teamMemberId,
                             !.phoneNumberId = phoneNumberId]]
        /\ UNCHANGED <<tables, env, emitted, gwHandlers, webhooks, send, del, assignPhone,
                       sockets, misc>>

Unassign_GetPhoneNumber ==
    \E i \in DOMAIN unassignPhone :
        /\ unassignPhone[i].pc = "getPhoneNumber"
        /\ LET found == getPhoneNumber(unassignPhone[i].phoneNumberId) IN
           unassignPhone' = [unassignPhone EXCEPT ![i] =
              IF found = {} THEN [IdleAssign EXCEPT !.pc = "done", !.res = 404]
              ELSE IF TheRow(found).gatewayId = NoId
              THEN [IdleAssign EXCEPT !.pc = "done", !.res = 403]
              ELSE [@ EXCEPT !.pc = "getSmsGateway", !.phoneNumber = found]]
        /\ UNCHANGED <<tables, env, emitted, gwHandlers, webhooks, send, del, assignPhone,
                       sockets, misc>>

\* 403 unless the gateway is the admin's; 400 unless the number read above is
\* assigned to the team member named
Unassign_GetSmsGateway ==
    \E i \in DOMAIN unassignPhone :
        /\ unassignPhone[i].pc = "getSmsGateway"
        /\ LET h == unassignPhone[i]
               phoneNumber == TheRow(h.phoneNumber)
               gateway == getSmsGateway(phoneNumber.gatewayId)
           IN unassignPhone' = [unassignPhone EXCEPT ![i] =
                 IF gateway = {} \/ TheRow(gateway).adminId # h.adminId
                 THEN [IdleAssign EXCEPT !.pc = "done", !.res = 403]
                 ELSE IF phoneNumber.assignedTo # h.teamMemberId
                 THEN [IdleAssign EXCEPT !.pc = "done", !.res = 400]
                 ELSE [@ EXCEPT !.pc = "unassignPhoneNumber"]]
        /\ UNCHANGED <<tables, env, emitted, gwHandlers, webhooks, send, del, assignPhone,
                       sockets, misc>>

\* await storage.unassignPhoneNumber(phoneNumberId), then the broadcast and the 200
Unassign_UnassignPhoneNumber ==
    \E i \in DOMAIN unassignPhone :
        /\ unassignPhone[i].pc = "unassignPhoneNumber"
        /\ phoneNumbers' = unassignPhoneNumber(phoneNumbers, unassignPhone[i].phoneNumberId)
        /\ emitted' = EmitAll({"phone_assignment_changed"})
        /\ sent' = broadcastToUser(sent, unassignPhone[i].teamMemberId,
                                   "phone_assignment_changed")
        /\ unassignPhone' = [unassignPhone EXCEPT ![i] =
              [IdleAssign EXCEPT !.pc = "done", !.res = 200]]
        /\ UNCHANGED <<users, smsGateways, conversations, messages, seq, env, gwHandlers,
                       webhooks, send, del, assignPhone, clients, userClients, conns,
                       wsMsg, broken, misc>>

(***************************************************************************)
(* The WebSocket server on /ws: wss.on("connection"), ws.on("message"),    *)
(* ws.on("close").  reply is the message the handler passed to ws.send.    *)
(***************************************************************************)
WsMessage(type, userId, conversationId) ==
    [type |-> type, userId |-> userId, conversationId |-> conversationId]

\* wss.on("connection", (ws) => ...)
Ws_Open(ws) ==
    /\ conns[ws].readyState = "CONNECTING"
    /\ conns' = [conns EXCEPT ![ws].readyState = "OPEN"]
    /\ UNCHANGED <<tables, env, emitted, sent, broken, gwHandlers, webhooks, apiHandlers, clients,
                   userClients, wsMsg, misc>>

\* The handler with its test of the closure variable left out.
NeverNotAuthenticated(ws) == FALSE

\* if (!authenticatedUser): no auth message on this connection has succeeded yet
NotAuthenticated(ws) == conns[ws].authenticatedUser = NoAuthenticatedUser

\* ws.on("message") up to its first await, or to its end where it has none:
\* auth awaits getUser; without authenticatedUser anything else is answered
\* "Not authenticated"; subscribe awaits getConversation; unsubscribe runs through.
Ws_Message(ws, message) ==
    \E i \in FirstIdle(wsMsg) :
        /\ conns[ws].readyState = "OPEN"
        /\ LET h == [IdleWsMsg EXCEPT !.ws = ws] IN
           IF message.type = "auth"
           THEN /\ wsMsg' = [wsMsg EXCEPT ![i] =
                      IF message.userId = NoUser THEN [h EXCEPT !.pc = "done"]
                      ELSE [h EXCEPT !.pc = "getUser", !.userId = message.userId]]
                /\ UNCHANGED <<conns, clients>>
           ELSE IF NotAuthenticated(ws)
           THEN /\ wsMsg' = [wsMsg EXCEPT ![i] = [h EXCEPT !.pc = "done", !.reply = "error"]]
                /\ UNCHANGED <<conns, clients>>
           ELSE IF message.type = "subscribe"
           THEN /\ wsMsg' = [wsMsg EXCEPT ![i] =
                      [h EXCEPT !.pc = "getConversation",
                                !.conversationId = message.conversationId]]
                /\ UNCHANGED <<conns, clients>>
           ELSE /\ wsMsg' = [wsMsg EXCEPT ![i] = [h EXCEPT !.pc = "done"]]
                /\ conns' = [conns EXCEPT ![ws].subscribedConversations =
                                              @ \ {message.conversationId}]
                /\ clients' = [clients EXCEPT ![message.conversationId] = @ \ {ws}]
        /\ UNCHANGED <<tables, env, emitted, sent, broken, gwHandlers, webhooks,
                       apiHandlers, userClients, misc>>

\* user = await storage.getUser(userId): authenticatedUser and authenticatedUserId
\* are set, ws joins userClients[user.id], auth_success; else auth_error
Ws_AuthGetUser ==
    \E i \in DOMAIN wsMsg :
        /\ wsMsg[i].pc = "getUser"
        /\ LET ws == wsMsg[i].ws
               found == getUser(wsMsg[i].userId)
           IN IF found = {}
              THEN /\ wsMsg' = [wsMsg EXCEPT ![i] =
                         [IdleWsMsg EXCEPT !.pc = "done", !.ws = ws, !.reply = "auth_error"]]
                   /\ UNCHANGED <<conns, userClients>>
              ELSE \E user \in found :
                   /\ conns' = [conns EXCEPT ![ws] =
                         [@ EXCEPT !.authenticatedUser = [id |-> user.id, role |-> user.role],
                                   !.authenticatedUserId = user.id]]
                   /\ userClients' = [userClients EXCEPT ![user.id] = @ \cup {ws}]
                   /\ wsMsg' = [wsMsg EXCEPT ![i] =
                         [IdleWsMsg EXCEPT !.pc = "done", !.ws = ws, !.reply = "auth_success"]]
        /\ UNCHANGED <<tables, env, emitted, sent, broken, gwHandlers, webhooks, apiHandlers, clients,
                       misc>>

\* conversation = await storage.getConversation(conversationId): error when there
\* is none, error unless authenticatedUser is an admin or the conversation's
\* assignedUserId; else ws joins subscribedConversations and clients[conversationId]
Ws_SubscribeGetConversation ==
    \E i \in DOMAIN wsMsg :
        /\ wsMsg[i].pc = "getConversation"
        /\ LET ws == wsMsg[i].ws
               conversationId == wsMsg[i].conversationId
               found == getConversation(conversationId)
               authenticatedUser == conns[ws].authenticatedUser
           IN IF \/ found = {}
                 \/ /\ authenticatedUser.role # "admin"
                    /\ TheRow(found).assignedUserId # authenticatedUser.id
              THEN /\ wsMsg' = [wsMsg EXCEPT ![i] =
                         [IdleWsMsg EXCEPT !.pc = "done", !.ws = ws, !.reply = "error"]]
                   /\ UNCHANGED <<conns, clients>>
              ELSE /\ conns' = [conns EXCEPT ![ws].subscribedConversations =
                                                 @ \cup {conversationId}]
                   /\ clients' = [clients EXCEPT ![conversationId] = @ \cup {ws}]
                   /\ wsMsg' = [wsMsg EXCEPT ![i] =
                         [IdleWsMsg EXCEPT !.pc = "done", !.ws = ws, !.reply = "subscribed"]]
        /\ UNCHANGED <<tables, env, emitted, sent, broken, gwHandlers, webhooks,
                       apiHandlers, userClients, misc>>

\* The socket under an open connection fails: readyState still reads OPEN and the
\* next client.send on it raises.
Ws_WriteFailure(ws) ==
    /\ conns[ws].readyState = "OPEN"
    /\ ws \notin broken
    /\ broken' = broken \cup {ws}
    /\ UNCHANGED <<tables, env, emitted, gwHandlers, webhooks, apiHandlers, clients,
                   userClients, conns, wsMsg, sent, misc>>

\* ws.on("close"): ws leaves clients[c] for every c of subscribedConversations and
\* userClients[authenticatedUserId]
Ws_Close(ws) ==
    /\ conns[ws].readyState = "OPEN"
    /\ conns' = [conns EXCEPT ![ws].readyState = "CLOSED"]
    /\ clients' = [c \in DOMAIN clients |->
                      IF c \in conns[ws].subscribedConversations
                      THEN clients[c] \ {ws} ELSE clients[c]]
    /\ userClients' = [u \in DOMAIN userClients |->
                          IF u = conns[ws].authenticatedUserId
                          THEN userClients[u] \ {ws} ELSE userClients[u]]
    /\ UNCHANGED <<tables, env, emitted, sent, broken, gwHandlers, webhooks, apiHandlers,
                   wsMsg, misc>>

(***************************************************************************)
(* Connections that authenticate, subscribe, unsubscribe and close.        *)
(***************************************************************************)
WsMessages ==
    { WsMessage("auth", u, NoId) : u \in UserIds \cup {NoUser, "nobody"} }
    \cup { WsMessage(type, NoUser, c) : type \in {"subscribe", "unsubscribe"}, c \in 1..2 }

InitSocket == InitWithMessage /\ env = NoSecrets /\ InitHandlers

NextSocket ==
    \/ \E ws \in 1..MaxConnections : Ws_Open(ws)
    \/ \E ws \in 1..MaxConnections, message \in WsMessages : Ws_Message(ws, message)
    \/ Ws_AuthGetUser
    \/ Ws_SubscribeGetConversation
    \/ \E ws \in 1..MaxConnections : Ws_Close(ws)

SpecSocket == InitSocket /\ [][NextSocket]_vars

\* The admin whose gateway the conversation's number belongs to.
Tenant(conversation) ==
    { g.adminId : g \in { g \in smsGateways :
                            \E p \in getPhoneNumber(conversation.phoneNumberId) :
                               p.gatewayId = g.id } }

(***************************************************************************)
(* C6: a subscribe handler that finishes for a connection authenticated as *)
(* an admin, on a conversation whose number belongs to another tenant's    *)
(* gateway, replies error and leaves every subscriber set as it was.       *)
(***************************************************************************)
C6_AdminTenantSubscribe ==
    [][ \A i \in DOMAIN wsMsg :
          ( /\ wsMsg[i].pc = "getConversation"
            /\ wsMsg'[i].pc = "done"
            /\ conns[wsMsg[i].ws].authenticatedUser.role = "admin"
            /\ \E c \in getConversation(wsMsg[i].conversationId) :
                  conns[wsMsg[i].ws].authenticatedUser.id \notin Tenant(c) )
          => (wsMsg'[i].reply = "error" /\ clients' = clients) ]_vars

(***************************************************************************)
(* C19: after every step, each member of a conversation's subscriber set   *)
(* is a connection on which an auth message has succeeded; a subscribe or  *)
(* unsubscribe message received on a connection before any auth success is *)
(* answered error in the step that receives it and changes no set; an auth *)
(* handler that finds no user for the id it was given answers auth_error   *)
(* and registers the connection under no user.                             *)
(***************************************************************************)
C19_AuthBeforeSubscribe ==
    [][ /\ \A c \in DOMAIN clients' : \A ws \in clients'[c] :
             conns'[ws].authenticatedUser # NoAuthenticatedUser
        /\ \A ws \in DOMAIN conns, message \in WsMessages :
             ( /\ message.type \in {"subscribe", "unsubscribe"}
               /\ conns[ws].authenticatedUser = NoAuthenticatedUser
               /\ Ws_Message(ws, message) )
             => /\ \E i \in FirstIdle(wsMsg) :
                      wsMsg'[i].pc = "done" /\ wsMsg'[i].reply = "error"
                /\ clients' = clients /\ userClients' = userClients /\ conns' = conns
        /\ \A i \in DOMAIN wsMsg :
             ( /\ wsMsg[i].pc = "getUser" /\ wsMsg'[i].pc = "done"
               /\ getUser(wsMsg[i].userId) = {} )
             => /\ wsMsg'[i].reply = "auth_error"
                /\ userClients' = userClients /\ conns' = conns
      ]_vars

\* One connection was refused a subscribe or unsubscribe before any auth success,
\* and an auth naming nobody was answered auth_error.
C19_RefusedBeforeAuth ==
    /\ \E i \in DOMAIN wsMsg :
          /\ wsMsg[i].pc = "done" /\ wsMsg[i].reply = "error"
          /\ conns[wsMsg[i].ws].authenticatedUser = NoAuthenticatedUser
    /\ \E j \in DOMAIN wsMsg : wsMsg[j].pc = "done" /\ wsMsg[j].reply = "auth_error"

(***************************************************************************)
(* C7: a connection that has closed and has no message handler in flight   *)
(* is in no conversation's subscriber set and in no user's set.            *)
(***************************************************************************)
InFlight(ws) == \E i \in DOMAIN wsMsg : wsMsg[i].ws = ws /\ wsMsg[i].pc \notin {"idle", "done"}

C7_ClosedConnectionGone ==
    \A ws \in DOMAIN conns :
        (conns[ws].readyState = "CLOSED" /\ ~InFlight(ws)) =>
            /\ \A c \in DOMAIN clients : ws \notin clients[c]
            /\ \A u \in DOMAIN userClients : ws \notin userClients[u]

(***************************************************************************)
(* Assignments, conversation creation and inbound webhooks, one request at *)
(* a time, while a team member's connection authenticates and subscribes.  *)
(***************************************************************************)
Settled(pool) == \A i \in DOMAIN pool : pool[i].pc \in {"idle", "done"}

\* No HTTP request is being handled.
Quiet == Settled(inbound) /\ Settled(assignPhone) /\ Settled(unassignPhone)

MemberMessages ==
    { WsMessage("auth", u, NoId) : u \in Members }
    \cup { WsMessage("subscribe", NoUser, c) : c \in 1..2 }

InitAssign == InitTables /\ env = NoSecrets /\ InitHandlers

NextAssign ==
    \/ \E teamMemberId \in Members : Quiet /\ Assign_Start("A1", teamMemberId, 1)
    \/ Assign_GetUser
    \/ Assign_GetPhoneNumber
    \/ Assign_GetSmsGateway
    \/ Assign_AssignPhoneNumber
    \/ Quiet /\ Unassign_Start("A1", "M1", 1)
    \/ Unassign_GetPhoneNumber
    \/ Unassign_GetSmsGateway
    \/ Unassign_UnassignPhoneNumber
    \/ Quiet /\ PostConversation("M2", Contact, 1, NoUser)
    \/ Quiet /\ Inbound_Start(WebhookRequest(InboundUrl, TRUE,
                    InboundBody("twilio", Contact, MainLine, "SM-in"), NoHeader, NoHeader))
    \/ Inbound_GetPhoneNumberByNumber
    \/ Inbound_GetConversation
    \/ Inbound_CreateConversation
    \/ Inbound_CreateMessage
    \/ Inbound_UpdateConversation
    \/ Ws_Open(1)
    \/ \E message \in MemberMessages : Ws_Message(1, message)
    \/ Ws_AuthGetUser
    \/ Ws_SubscribeGetConversation

SpecAssign == InitAssign /\ [][NextAssign]_vars

(***************************************************************************)
(* C5: a subscribe handler that finishes for a connection authenticated as *)
(* a non-admin, on a conversation whose phone number is not assigned to    *)
(* that user at that moment, replies error and leaves every subscriber set *)
(* as it was.                                                              *)
(***************************************************************************)
AssignedTo(conversation, userId) ==
    \E p \in getPhoneNumber(conversation.phoneNumberId) : p.assignedTo = userId

C5_MemberSubscribe ==
    [][ \A i \in DOMAIN wsMsg :
          ( /\ wsMsg[i].pc = "getConversation"
            /\ wsMsg'[i].pc = "done"
            /\ conns[wsMsg[i].ws].authenticatedUser.role # "admin"
            /\ \E c \in getConversation(wsMsg[i].conversationId) :
                  ~AssignedTo(c, conns[wsMsg[i].ws].authenticatedUser.id) )
          => (wsMsg'[i].reply = "error" /\ clients' = clients) ]_vars

(***************************************************************************)
(* One Telnyx inbound webhook to A1's number, which is assigned to M1,     *)
(* while connections open, authenticate, lose their socket and close.      *)
(***************************************************************************)
TelnyxInbound ==
    WebhookRequest(InboundUrl, TRUE, InboundBody("telnyx", Contact, MainLine, "SM-in"),
                   NoHeader, NoHeader)

InitFanout == InitTables /\ env = NoSecrets /\ InitHandlers

NextFanout ==
    \/ \E ws \in 1..MaxConnections : Ws_Open(ws)
    \/ \E ws \in 1..MaxConnections, u \in {"A1", "M1", "M2"} :
          Ws_Message(ws, WsMessage("auth", u, NoId))
    \/ Ws_AuthGetUser
    \/ \E ws \in 1..MaxConnections : Ws_WriteFailure(ws)
    \/ \E ws \in 1..MaxConnections : Ws_Close(ws)
    \/ (\A i \in DOMAIN inbound : inbound[i].pc = "idle") /\ Inbound_Start(TelnyxInbound)
    \/ Inbound_GetPhoneNumberByNumber
    \/ Inbound_GetConversation
    \/ Inbound_CreateConversation
    \/ Inbound_CreateMessage
    \/ Inbound_UpdateConversation

SpecFanout == InitFanout /\ [][NextFanout]_vars

(***************************************************************************)
(* C13: the step that ends the handler of the one Telnyx inbound webhook   *)
(* (to +14155551234, assigned to M1, from +19998887777, no conversation    *)
(* before) leaves exactly one conversation, assigned to M1 with            *)
(* unreadCount 1, exactly one inbound message, delivered and without       *)
(* sender, and has written one new_inbound_message event to every open     *)
(* connection registered for A1 or for M1 whose socket takes the write.    *)
(***************************************************************************)
C13_InboundEndToEnd ==
    [][ \A i \in DOMAIN inbound :
          (inbound[i].pc = "updateConversation" /\ inbound'[i].pc = "done") =>
             /\ Cardinality(conversations') = 1
             /\ \A c \in conversations' :
                   /\ c.phoneNumberId = 1 /\ c.contactNumber = Contact
                   /\ c.assignedUserId = "M1" /\ c.unreadCount = 1
                   /\ \A m \in messages' : m.conversationId = c.id
             /\ Cardinality(messages') = 1
             /\ \A m \in messages' :
                   m.direction = "inbound" /\ m.status = "delivered" /\ m.senderId = NoUser
             /\ \A ws \in userClients["A1"] \cup userClients["M1"] :
                   (conns[ws].readyState = "OPEN" /\ ws \notin broken) =>
                      sent'[ws].new_inbound_message = sent[ws].new_inbound_message + 1
      ]_vars

(***************************************************************************)
(* C20: in the fan-out of the inbound webhook (new_inbound_message to the  *)
(* connections of the number's admin and assignee) and of the status       *)
(* webhook (message_status to the conversation's subscribers and the       *)
(* sender's connections), a write that raises on one connection of the     *)
(* target set keeps the event from no other open connection of that set    *)
(* and does not make the request fail: every open connection of the set    *)
(* whose socket takes the write has the event written to it, and the       *)
(* request is not answered 500.                                            *)
(***************************************************************************)
C20_FanoutSurvivesWriteFailure ==
    [][ /\ \A i \in DOMAIN inbound :
             (inbound[i].pc = "updateConversation" /\ inbound'[i].pc = "done") =>
                LET phoneNumber == TheRow(inbound[i].phoneNumber)
                    target == MapGet(userClients, phoneNumber.adminId)
                              \cup (IF phoneNumber.assignedTo # NoUser
                                    THEN MapGet(userClients, phoneNumber.assignedTo)
                                    ELSE {})
                IN /\ \A ws \in target :
                         (conns[ws].readyState = "OPEN" /\ ws \notin broken) =>
                            sent'[ws].new_inbound_message > sent[ws].new_inbound_message
                   /\ inbound'[i].res # 500
        /\ \A i \in DOMAIN statusWh :
             (statusWh[i].pc = "updateMessage" /\ statusWh'[i].pc = "done") =>
                LET message == TheRow(statusWh[i].message)
                    target == MapGet(clients, message.conversationId)
                              \cup (IF message.senderId # NoUser
                                    THEN MapGet(userClients, message.senderId)
                                    ELSE {})
                IN /\ \A ws \in target :
                         (conns[ws].readyState = "OPEN" /\ ws \notin broken) =>
                            sent'[ws].message_status > sent[ws].message_status
                   /\ statusWh'[i].res # 500
      ]_vars

(***************************************************************************)
(* Admins of both tenants and a team member send in, and the other         *)
(* tenant's admin deletes, the conversation on A1's number.                *)
(***************************************************************************)
InitTenant == InitWithMessage /\ env = NoSecrets /\ InitHandlers

NextTenant ==
    \/ \E user \in {"A1", "A2", "M1"} : Send_Start(user, 1, TRUE)
    \/ Send_GetConversation
    \/ Send_GetAssignedPhones
    \/ Send_GetPhoneNumber
    \/ Send_GetSmsGateway
    \/ Send_SendSms
    \/ Send_CreateMessage
    \/ Send_UpdateConversation
    \/ Send_Notify
    \/ Delete_Start("A2", 1)
    \/ Delete_GetConversation
    \/ Delete_DeleteMessages
    \/ Delete_DeleteConversation

SpecTenant == InitTenant /\ [][NextTenant]_vars

(***************************************************************************)
(* C14: a send or delete request of an admin on a conversation whose phone *)
(* number belongs to a gateway of another tenant is refused with 403 in    *)
(* the step that reads the conversation, and no step of the request        *)
(* changes the conversations (unread counters included) or the messages.   *)
(***************************************************************************)
C14_CrossTenantAdminRefused ==
    [][ /\ \A i \in DOMAIN send :
             ( /\ send[i].user \in Admins
               /\ \E c \in getConversation(send[i].id) : send[i].user \notin Tenant(c)
               /\ send'[i] # send[i] )
             => /\ send'[i].pc = "done" /\ send'[i].res = 403
                /\ conversations' = conversations /\ messages' = messages
        /\ \A i \in DOMAIN del :
             ( /\ del[i].user \in Admins
               /\ \E c \in getConversation(del[i].id) : del[i].user \notin Tenant(c)
               /\ del'[i] # del[i] )
             => /\ del'[i].pc = "done" /\ del'[i].res = 403
                /\ conversations' = conversations /\ messages' = messages
      ]_vars

(***************************************************************************)
(* GET /api/phone-numbers and GET /api/conversations.  A team member's     *)
(* request reads the numbers assigned to the user; an admin's request goes *)
(* through getProviderContext (getUser, getActiveSmsGateway,               *)
(* createSmsProvider) and reads the numbers of the gateway it returned.    *)
(***************************************************************************)
\* storage.getPhoneNumbers(undefined, gatewayId)
getPhoneNumbers(gatewayId) == { p \in phoneNumbers : p.gatewayId = gatewayId }

\* The rows left unchanged by a listing.
listed ==
    <<tables, env, emitted, gwHandlers, webhooks, apiHandlers, sockets, factory, teamDel,
      recent, late>>

List_Start(route, user, includeAssigned) ==
    /\ listing.pc \in {"idle", "done"}
    /\ listing' = [IdleListing EXCEPT
                      !.pc = IF Role(user) = "team_member"
                             THEN "getPhoneNumbersAssignedToUser" ELSE "getUser",
                      !.route = route, !.user = user, !.includeAssigned = includeAssigned]
    /\ UNCHANGED listed

\* phones = await storage.getPhoneNumbersAssignedToUser(user.id): the answer of
\* /api/phone-numbers; /api/conversations answers [] when there are none
List_GetAssignedPhones ==
    /\ listing.pc = "getPhoneNumbersAssignedToUser"
    /\ LET phoneIds == { p.id : p \in getPhoneNumbersAssignedToUser(listing.user) } IN
       listing' =
          IF listing.route = "phone-numbers"
          THEN [listing EXCEPT !.pc = "done", !.body = phoneIds, !.res = 200]
          ELSE IF phoneIds = {}
          THEN [listing EXCEPT !.pc = "done", !.res = 200]
          ELSE [listing EXCEPT !.pc = "getConversations", !.phoneIds = phoneIds]
    /\ UNCHANGED listed

\* getProviderContext: user = await storage.getUser(userId); without a user or an
\* adminId there is no gateway and the route answers []
List_GetUser ==
    /\ listing.pc = "getUser"
    /\ LET found == getUser(listing.user)
           adminId == IF TheRow(found).role = "admin" THEN TheRow(found).id
                      ELSE TheRow(found).createdBy
       IN listing' =
             IF found = {} \/ adminId = NoUser
             THEN [listing EXCEPT !.pc = "done", !.res = 200]
             ELSE [listing EXCEPT !.pc = "getActiveSmsGateway", !.adminId = adminId]
    /\ UNCHANGED listed

\* getProviderContext: gateway = await storage.getActiveSmsGateway(adminId), the
\* first row the query returns; createSmsProvider(gateway) runs on it and lands in
\* the route's catch (500) when it throws.
List_GetActiveSmsGateway ==
    /\ listing.pc = "getActiveSmsGateway"
    /\ LET found == getActiveSmsGateway(listing.adminId) IN
       IF found = {}
       THEN listing' = [listing EXCEPT !.pc = "done", !.res = 200]
       ELSE \E gateway \in found :
              listing' =
                 IF ~createSmsProvider(gateway, getEncryptionKey(env)).ok
                 THEN [listing EXCEPT !.pc = "done", !.res = 500]
                 ELSE [listing EXCEPT !.pc = "getPhoneNumbers", !.gatewayId = gateway.id]
    /\ UNCHANGED listed

\* allPhones = await storage.getPhoneNumbers(undefined, gatewayId): the answer of
\* /api/phone-numbers (without the assigned ones unless includeAssigned=true)
List_GetPhoneNumbers ==
    /\ listing.pc = "getPhoneNumbers"
    /\ LET allPhones == getPhoneNumbers(listing.gatewayId)
           phones == IF listing.includeAssigned THEN allPhones
                     ELSE { p \in allPhones : p.assignedTo = NoUser }
       IN listing' =
             IF listing.route = "phone-numbers"
             THEN [listing EXCEPT !.pc = "done", !.body = { p.id : p \in phones },
                                  !.res = 200]
             ELSE [listing EXCEPT !.pc = "getConversations",
                                  !.phoneIds = { p.id : p \in allPhones }]
    /\ UNCHANGED listed

\* allConversations = await storage.getConversations(), filtered by
\* c.phoneNumberId && phoneIds.has(c.phoneNumberId)
List_GetConversations ==
    /\ listing.pc = "getConversations"
    /\ listing' = [listing EXCEPT
                      !.pc = "done", !.res = 200,
                      !.body = { c.id : c \in { c \in conversations :
                                                 /\ c.phoneNumberId # NoId
                                                 /\ c.phoneNumberId \in listing.phoneIds } }]
    /\ UNCHANGED listed

(***************************************************************************)
(* Listings between activations and assignments, one request at a time.    *)
(***************************************************************************)
InitVisibility == InitWithMessage /\ env = NoSecrets /\ InitHandlers

NextVisibility ==
    \/ \E route \in {"phone-numbers", "conversations"}, user \in {"A1", "A2", "M1", "M2"} :
          /\ Settled(activateGw) /\ Settled(assignPhone) /\ Settled(unassignPhone)
          /\ List_Start(route, user, TRUE)
    \/ List_GetAssignedPhones
    \/ List_GetUser
    \/ List_GetActiveSmsGateway
    \/ List_GetPhoneNumbers
    \/ List_GetConversations
    \/ listing.pc \in {"idle", "done"} /\ ActivateGateway_Start
    \/ ActivateGateway_Deactivate
    \/ ActivateGateway_Activate
    \/ listing.pc \in {"idle", "done"} /\ Unassign_Start("A1", "M1", 1)
    \/ Unassign_GetPhoneNumber
    \/ Unassign_GetSmsGateway
    \/ Unassign_UnassignPhoneNumber

SpecVisibility == InitVisibility /\ [][NextVisibility]_vars

(***************************************************************************)
(* C15: a listing that runs with no other request in flight answers, for   *)
(* an admin, with exactly the phone numbers (includeAssigned=true) or the  *)
(* conversations owned through any gateway of that admin, active or not,   *)
(* and for a team member with exactly the numbers assigned to that user or *)
(* the conversations on those numbers.                                     *)
(***************************************************************************)
C15_Visibility ==
    [][ (listing.pc \notin {"idle", "done"} /\ listing'.pc = "done") =>
          LET user == listing.user
              visible == IF user \in Admins
                         THEN { p \in phoneNumbers :
                                  \E g \in getSmsGateways(user) : p.gatewayId = g.id }
                         ELSE getPhoneNumbersAssignedToUser(user)
          IN /\ listing'.res = 200
             /\ listing'.body =
                   IF listing.route = "phone-numbers" THEN { p.id : p \in visible }
                   ELSE { c.id : c \in { c \in conversations :
                                            \E p \in visible : c.phoneNumberId = p.id } }
      ]_vars

(***************************************************************************)
(* DELETE /api/team/:id                                                    *)
(***************************************************************************)
\* DELETE FROM users WHERE id = $1 is rejected while a row of sms_gateways,
\* phone_numbers, conversations or messages refers to the user (the columns that
\* reference users.id carry no ON DELETE rule).
UserDeletable(id) ==
    /\ \A g \in smsGateways : g.adminId # id
    /\ \A p \in phoneNumbers : p.adminId # id /\ p.assignedTo # id
    /\ \A c \in conversations : c.assignedUserId # id
    /\ \A m \in messages : m.senderId # id

\* requireAuth, requireAdmin, up to the await of getUser
TeamDelete_Start(id) ==
    /\ teamDel.pc \in {"idle", "done"}
    /\ teamDel' = [IdleTeamDelete EXCEPT !.pc = "getUser", !.id = id]
    /\ UNCHANGED <<tables, env, emitted, gwHandlers, webhooks, apiHandlers, sockets,
                   factory, listing, recent, late>>

\* user = await storage.getUser(id): 404 without one, 403 for an admin
TeamDelete_GetUser ==
    /\ teamDel.pc = "getUser"
    /\ LET found == getUser(teamDel.id) IN
       teamDel' = IF found = {} THEN [teamDel EXCEPT !.pc = "done", !.res = 404]
                  ELSE IF TheRow(found).role = "admin"
                  THEN [teamDel EXCEPT !.pc = "done", !.res = 403]
                  ELSE [teamDel EXCEPT !.pc = "deleteUser"]
    /\ UNCHANGED <<tables, env, emitted, gwHandlers, webhooks, apiHandlers, sockets,
                   factory, listing, recent, late>>

\* await storage.deleteUser(id); a rejected DELETE lands in the route's catch: 500
TeamDelete_DeleteUser ==
    /\ teamDel.pc = "deleteUser"
    /\ IF UserDeletable(teamDel.id)
       THEN /\ users' = users \ getUser(teamDel.id)
            /\ teamDel' = [teamDel EXCEPT !.pc = "done", !.res = 200]
       ELSE /\ UNCHANGED users
            /\ teamDel' = [teamDel EXCEPT !.pc = "done", !.res = 500]
    /\ UNCHANGED <<smsGateways, phoneNumbers, conversations, messages, seq, env, emitted,
                   gwHandlers, webhooks, apiHandlers, sockets, factory, listing,
                   recent, late>>

(***************************************************************************)
(* Assign, unassign and team-member deletion requests of both admins.      *)
(***************************************************************************)
InitTeam == InitTables /\ env = NoSecrets /\ InitHandlers

NextTeam ==
    \/ \E adminId \in Admins, teamMemberId \in Members \cup {"A2"}, phoneNumberId \in 1..2 :
          Assign_Start(adminId, teamMemberId, phoneNumberId)
    \/ Assign_GetUser
    \/ Assign_GetPhoneNumber
    \/ Assign_GetSmsGateway
    \/ Assign_AssignPhoneNumber
    \/ \E adminId \in Admins, teamMemberId \in Members, phoneNumberId \in 1..2 :
          Unassign_Start(adminId, teamMemberId, phoneNumberId)
    \/ Unassign_GetPhoneNumber
    \/ Unassign_GetSmsGateway
    \/ Unassign_UnassignPhoneNumber
    \/ \E id \in Members \cup {"A2"} : TeamDelete_Start(id)
    \/ TeamDelete_GetUser
    \/ TeamDelete_DeleteUser

SpecTeam == InitTeam /\ [][NextTeam]_vars

(***************************************************************************)
(* C16: in every state reachable through assign, unassign and team-member  *)
(* deletion requests, the assignee of a phone number (the one assignedTo   *)
(* column) is an existing non-admin user created by the admin who owns the *)
(* number's gateway; hence an assign request naming a user of a different  *)
(* tenant never takes effect.                                              *)
(***************************************************************************)
C16_AssigneeOfSameTenant ==
    \A p \in phoneNumbers :
        p.assignedTo # NoUser =>
            \E u \in getUser(p.assignedTo) :
                /\ u.role # "admin"
                /\ \E g \in getSmsGateway(p.gatewayId) : u.createdBy = g.adminId

(***************************************************************************)
(* Status webhooks, JSON and form-encoded, for the provider id of the      *)
(* stored outbound message and for an id no message carries.               *)
(***************************************************************************)
LookupStatus ==
    { WebhookRequest(StatusUrl, json, StatusBody(shape, sid, raw), NoHeader, NoHeader)
      : json \in BOOLEAN, shape \in {"twilio", "telnyx"}, sid \in {"SM-out", "SM-gone"},
        raw \in {"queued", "delivered", "failed"} }

InitLookup == InitWithMessage /\ env = NoSecrets /\ InitHandlers

NextLookup ==
    \/ \E rq \in LookupStatus : Status_Start(rq)
    \/ Status_GetMessage
    \/ Status_UpdateMessage

SpecLookup == InitLookup /\ [][NextLookup]_vars

(***************************************************************************)
(* C21: a well-formed status webhook (Twilio/SignalWire fields delivered   *)
(* form-encoded or as JSON, or the Telnyx JSON payload, with no signature  *)
(* header) is not turned away before the lookup, and when the lookup finds *)
(* no stored message with its provider message id the handler completes    *)
(* with 200 in that step, and the step changes no message, creates no      *)
(* message or conversation, writes nothing to a connection and emits no    *)
(* event.                                                                  *)
(***************************************************************************)
C21_UnknownIdIsNoOp ==
    [][ /\ \A rq \in LookupStatus :
             ( /\ rq.body.Sid = "SM-gone"
               /\ rq.body.shape = "twilio" \/ rq.rawBody
               /\ Status_Start(rq) )
             => \E i \in FirstIdle(statusWh) :
                   statusWh'[i].pc = "getMessageBySignalwireId"
        /\ \A i \in DOMAIN statusWh :
             ( /\ statusWh[i].pc = "getMessageBySignalwireId"
               /\ statusWh'[i] # statusWh[i]
               /\ \A m \in messages :
                     m.signalwireMessageId # statusWh[i].providerMessageId )
             => /\ statusWh'[i].pc = "done" /\ statusWh'[i].res = 200
                /\ messages' = messages /\ conversations' = conversations
                /\ emitted' = emitted /\ sent' = sent
      ]_vars

(***************************************************************************)
(* Inbound webhooks without signature header, JSON and form-encoded, in    *)
(* the three payload shapes, to A1's number, to a number nobody has        *)
(* provisioned and with the destination left empty.                        *)
(***************************************************************************)
Unlisted == <<"+", "1", "3", "0", "3", "5", "5", "5", "0", "1", "0", "0">>

AddressedInbound ==
    { WebhookRequest(InboundUrl, json, InboundBody(shape, Contact, to, "SM-in"),
                     NoHeader, NoHeader)
      : json \in BOOLEAN, shape \in {"twilio", "telnyx", "unknown"},
        to \in {MainLine, Unlisted, EmptyString} }

InitAddressed == InitTables /\ env = NoSecrets /\ InitHandlers

NextAddressed ==
    \/ \E rq \in AddressedInbound : Inbound_Start(rq)
    \/ Inbound_GetPhoneNumberByNumber
    \/ Inbound_GetConversation
    \/ Inbound_CreateConversation
    \/ Inbound_CreateMessage
    \/ Inbound_UpdateConversation

SpecAddressed == InitAddressed /\ [][NextAddressed]_vars

(***************************************************************************)
(* C22: an inbound webhook without signature header whose payload has      *)
(* neither the Twilio/SignalWire nor the Telnyx shape is answered 400 by   *)
(* the step that receives it; one of either shape whose normalized         *)
(* destination is no provisioned number reaches the lookup of the number   *)
(* and is answered 404 there.  In both cases the step creates no           *)
(* conversation or message, changes no unread counter, writes nothing to   *)
(* a connection and emits no event.                                        *)
(***************************************************************************)
C22_RejectedInboundIsNoOp ==
    [][ /\ \A rq \in AddressedInbound :
             Inbound_Start(rq) =>
                \E i \in FirstIdle(inbound) :
                   /\ ~(IsTwilioShape(rq.body) \/ IsTelnyxShape(rq.body)) =>
                         /\ inbound'[i].pc = "done" /\ inbound'[i].res = 400
                         /\ conversations' = conversations /\ messages' = messages
                         /\ emitted' = emitted /\ sent' = sent
                   /\ ( /\ IsTwilioShape(rq.body) \/ IsTelnyxShape(rq.body)
                        /\ getPhoneNumberByNumber(formatToE164(rq.body.To)) = {} ) =>
                         inbound'[i].pc = "getPhoneNumberByNumber"
        /\ \A i \in DOMAIN inbound :
             ( /\ inbound[i].pc = "getPhoneNumberByNumber"
               /\ inbound'[i] # inbound[i]
               /\ \A p \in phoneNumbers : p.number # inbound[i].toNumber )
             => /\ inbound'[i].pc = "done" /\ inbound'[i].res = 404
                /\ conversations' = conversations /\ messages' = messages
                /\ emitted' = emitted /\ sent' = sent
      ]_vars

(***************************************************************************)
(* The status round trip of the message sent through the API: its status   *)
(* webhooks queued, delivered and failed arrive one after the other, each  *)
(* when the handler of the one before has completed, as JSON or           *)
(* form-encoded.  A run starts after the send, after the queued webhook    *)
(* or after the delivered webhook.                                         *)
(***************************************************************************)
RoundTripStatus ==
    { WebhookRequest(StatusUrl, json, StatusBody(shape, "SM-out", raw), NoHeader, NoHeader)
      : json \in BOOLEAN, shape \in {"twilio", "telnyx"},
        raw \in {"queued", "delivered", "failed"} }

InitRoundTrip ==
    /\ users = SeedUsers
    /\ smsGateways = { GatewayRow(1, "A1", "telnyx", TRUE, Sealed),
                       GatewayRow(2, "A1", "twilio", FALSE, Sealed),
                       GatewayRow(3, "A2", "signalwire", TRUE, Sealed) }
    /\ phoneNumbers = { PhoneRow(1, MainLine, 1, "A1", "M1"),
                        PhoneRow(2, SalesLine, 3, "A2", NoUser) }
    /\ conversations = { ConversationRow(1, Contact, 1, "M1") }
    /\ \E status \in {"sent", "pending", "delivered"} :
          messages = { MessageRow(1, 1, "A1", "outbound", status, "SM-out") }
    /\ seq = [gateway |-> 3, phone |-> 2, conversation |-> 1, message |-> 1]
    /\ emitted = NoEvents
    /\ env = NoSecrets
    /\ InitHandlers

NextRoundTrip ==
    \/ /\ \A i \in DOMAIN statusWh : statusWh[i].pc \in {"idle", "done"}
       /\ \E rq \in RoundTripStatus : Status_Start(rq)
    \/ Status_GetMessage
    \/ Status_UpdateMessage

SpecRoundTrip == InitRoundTrip /\ [][NextRoundTrip]_vars

\* The canonical status the round trip expects for a raw status.
RoundTripExpected(rawStatus) ==
    IF rawStatus = "queued" THEN "pending" ELSE rawStatus

(***************************************************************************)
(* C23: a status webhook for the provider message id of the message sent   *)
(* through the API carries pending into its handler when its raw status    *)
(* is queued, delivered when it is delivered and failed when it is failed, *)
(* and the handler's update stores the status it carries whatever the      *)
(* status stored before: queued makes the message pending, a subsequent    *)
(* delivered makes it delivered, and a later failed makes it failed.       *)
(***************************************************************************)
C23_StatusRoundTrip ==
    [][ /\ \A rq \in RoundTripStatus :
             Status_Start(rq) =>
                \E i \in FirstIdle(statusWh) :
                   /\ statusWh'[i].pc = "getMessageBySignalwireId"
                   /\ statusWh'[i].status = RoundTripExpected(rq.body.Status)
        /\ \A i \in DOMAIN statusWh :
             (statusWh[i].pc = "updateMessage" /\ statusWh'[i].pc = "done") =>
                \A m \in messages' :
                   m.signalwireMessageId = "SM-out" => m.status = statusWh[i].status
      ]_vars

(***************************************************************************)
(* Inbound webhook payloads from the contact to A1's and to A2's number    *)
(* (provider message id SM-in), delivered and then replayed.  A run starts *)
(* with no conversation or after the first delivery to A1's number has     *)
(* completed; the first delivery of a payload runs without a replay of it  *)
(* beside it, replays overlap each other and deliveries of the other       *)
(* payload.                                                                *)
(***************************************************************************)
ReplayedInbound ==
    { WebhookRequest(InboundUrl, TRUE, InboundBody(shape, Contact, to, "SM-in"),
                     NoHeader, NoHeader)
      : shape \in {"twilio", "telnyx"}, to \in {MainLine, SalesLine} }

\* The conversations of the pair (phone number, the contact)
PairConversations(phoneNumberId) ==
    { c \in conversations : c.phoneNumberId = phoneNumberId /\ c.contactNumber = Contact }

\* The first delivery of the payload to this number has completed: its last
\* write, the unread counter, is in the row.
FirstDelivered(number) ==
    \E p \in phoneNumbers : /\ p.number = number
                            /\ \E c \in PairConversations(p.id) : c.unreadCount > 0

InitReplay ==
    /\ \/ InitTables
       \/ /\ users = SeedUsers
          /\ smsGateways = { GatewayRow(1, "A1", "telnyx", TRUE, Sealed),
                             GatewayRow(2, "A1", "twilio", FALSE, Sealed),
                             GatewayRow(3, "A2", "signalwire", TRUE, Sealed) }
          /\ phoneNumbers = { PhoneRow(1, MainLine, 1, "A1", "M1"),
                              PhoneRow(2, SalesLine, 3, "A2", NoUser) }
          /\ conversations =
                { [ConversationRow(1, Contact, 1, "M1") EXCEPT
                      !.unreadCount = 1, !.lastMessagePreview = "hi"] }
          /\ messages = { MessageRow(1, 1, NoUser, "inbound", "delivered", "SM-in") }
          /\ seq = [gateway |-> 3, phone |-> 2, conversation |-> 1, message |-> 1]
          /\ emitted = [NoEvents EXCEPT !.new_inbound_message = 1]
    /\ env = NoSecrets
    /\ InitHandlers

NextReplay ==
    \/ \E rq \in ReplayedInbound :
          /\ \/ FirstDelivered(rq.body.To)
             \/ \A i \in DOMAIN inbound :
                   inbound[i].pc \in {"idle", "done"} \/ inbound[i].toNumber # rq.body.To
          /\ Inbound_Start(rq)
    \/ Inbound_GetPhoneNumberByNumber
    \/ Inbound_GetConversation
    \/ Inbound_CreateConversation
    \/ Inbound_CreateMessage
    \/ Inbound_UpdateConversation

SpecReplay == InitReplay /\ [][NextReplay]_vars

(***************************************************************************)
(* C24: once the first delivery of an inbound webhook payload has          *)
(* completed, a replay of the payload reuses the conversation of its       *)
(* (phoneNumberId, contactNumber) pair: the pair keeps exactly one         *)
(* conversation, the replay's handler goes from the lookup of the          *)
(* conversation straight to createMessage, and its createMessage appends   *)
(* exactly one inbound message row to that conversation.                   *)
(***************************************************************************)
C24_ReplayReusesConversation ==
    [][ /\ \A p \in phoneNumbers :
             Cardinality(PairConversations(p.id)) = 1 =>
                Cardinality(PairConversations(p.id)') = 1
        /\ \A i \in DOMAIN inbound :
             ( /\ inbound[i].pc = "getConversationByPhoneAndContact"
               /\ FirstDelivered(inbound[i].toNumber)
               /\ inbound'[i] # inbound[i] )
             => /\ inbound'[i].pc = "createMessage"
                /\ inbound'[i].conversation =
                      PairConversations(TheRow(inbound[i].phoneNumber).id)
        /\ \A i \in DOMAIN inbound :
             ( /\ inbound[i].pc = "createMessage"
               /\ FirstDelivered(inbound[i].toNumber)
               /\ inbound'[i] # inbound[i] )
             => /\ inbound'[i].pc = "updateConversation"
                /\ Cardinality(messages') = Cardinality(messages) + 1
                /\ \A m \in messages' \ messages :
                      /\ m.direction = "inbound" /\ m.signalwireMessageId = "SM-in"
                      /\ {m.conversationId} =
                            { c.id : c \in PairConversations(
                                               TheRow(inbound[i].phoneNumber).id) }
      ]_vars

\* two replays to A1's number have completed: one conversation of the pair,
\* three inbound messages in it
C24_Replayed ==
    /\ Cardinality(PairConversations(1)) = 1
    /\ Cardinality({ m \in messages : m.conversationId = 1 }) = 3
    /\ \A i \in DOMAIN inbound : inbound[i].pc = "done" /\ inbound[i].res = 200

(***************************************************************************)
(* DELETE /api/integrations/gateways/:id                                   *)
(***************************************************************************)
\* One pass of the loop of clearConversationPhoneNumbers:
\* UPDATE conversations SET phone_number_id = NULL WHERE phone_number_id = $1
clearConversationPhoneNumber(table, phoneId) ==
    { IF c.phoneNumberId = phoneId THEN [c EXCEPT !.phoneNumberId = NoId] ELSE c
      : c \in table }

\* A DELETE that removes no row.
deleteNoPhoneNumbers(table, gatewayId) == table

\* DELETE FROM phone_numbers WHERE gateway_id = $1
deletePhoneNumbersByGateway(table, gatewayId) ==
    { p \in table : p.gatewayId # gatewayId }

\* conversations.phone_number_id references phone_numbers.id and
\* phone_numbers.gateway_id references sms_gateways.id, both without ON DELETE:
\* a DELETE of a row that is still referenced is rejected.
PhoneNumbersDeletable(gatewayId) ==
    \A p \in phoneNumbers :
        p.gatewayId = gatewayId => \A c \in conversations : c.phoneNumberId # p.id

GatewayDeletable(gatewayId) == \A p \in phoneNumbers : p.gatewayId # gatewayId

\* requireAuth and the role check, up to the await of getSmsGateway
GatewayDelete_Start(user, gatewayId) ==
    /\ gwDel.pc \in {"idle", "done"}
    /\ gwDel' = IF Role(user) # "admin"
                THEN [IdleGatewayDelete EXCEPT !.pc = "done", !.user = user, !.res = 403]
                ELSE [IdleGatewayDelete EXCEPT !.pc = "getSmsGateway", !.user = user,
                                               !.gatewayId = gatewayId]
    /\ UNCHANGED <<tables, env, emitted, gwHandlers, webhooks, apiHandlers, sockets,
                   factory, listing, teamDel, late, convReq, ctx, vault>>

\* gateway = await storage.getSmsGateway(gatewayId): 404 when there is none or it
\* is another admin's
GatewayDelete_GetSmsGateway ==
    /\ gwDel.pc = "getSmsGateway"
    /\ gwDel' = IF \E g \in getSmsGateway(gwDel.gatewayId) : g.adminId = gwDel.user
                THEN [gwDel EXCEPT !.pc = "selectPhoneNumbers"]
                ELSE [gwDel EXCEPT !.pc = "done", !.res = 404]
    /\ UNCHANGED <<tables, env, emitted, gwHandlers, webhooks, apiHandlers, sockets,
                   factory, listing, teamDel, late, convReq, ctx, vault>>

\* clearConversationPhoneNumbers, the SELECT of the gateway's phone number ids
GatewayDelete_SelectPhoneNumbers ==
    /\ gwDel.pc = "selectPhoneNumbers"
    /\ LET nums == { p.id : p \in { q \in phoneNumbers : q.gatewayId = gwDel.gatewayId } }
       IN gwDel' = [gwDel EXCEPT !.nums = nums,
                                 !.pc = IF nums = {} THEN "deletePhoneNumbersByGateway"
                                        ELSE "clearConversationPhoneNumbers"]
    /\ UNCHANGED <<tables, env, emitted, gwHandlers, webhooks, apiHandlers, sockets,
                   factory, listing, teamDel, late, convReq, ctx, vault>>

\* clearConversationPhoneNumbers, one awaited UPDATE of its loop
GatewayDelete_ClearConversationPhoneNumbers ==
    /\ gwDel.pc = "clearConversationPhoneNumbers"
    /\ \E phoneId \in gwDel.nums :
          /\ conversations' = clearConversationPhoneNumber(conversations, phoneId)
          /\ gwDel' = [gwDel EXCEPT !.nums = @ \ {phoneId},
                                    !.pc = IF gwDel.nums = {phoneId}
                                           THEN "deletePhoneNumbersByGateway"
                                           ELSE "clearConversationPhoneNumbers"]
    /\ UNCHANGED <<users, smsGateways, phoneNumbers, messages, seq, env, emitted,
                   gwHandlers, webhooks, apiHandlers, sockets, factory, listing, teamDel, late,
                   convReq, ctx, vault>>

\* deletedNumbers = await storage.deletePhoneNumbersByGateway(gatewayId); a
\* rejected DELETE lands in the route's catch: 500
GatewayDelete_DeletePhoneNumbersByGateway ==
    /\ gwDel.pc = "deletePhoneNumbersByGateway"
    /\ IF PhoneNumbersDeletable(gwDel.gatewayId)
       THEN /\ phoneNumbers' = deletePhoneNumbersByGateway(phoneNumbers, gwDel.gatewayId)
            /\ gwDel' = [gwDel EXCEPT
                  !.pc = "deleteSmsGateway",
                  !.deletedNumbers = Cardinality(phoneNumbers)
                                       - Cardinality(phoneNumbers')]
       ELSE /\ UNCHANGED phoneNumbers
            /\ gwDel' = [gwDel EXCEPT !.pc = "done", !.res = 500]
    /\ UNCHANGED <<users, smsGateways, conversations, messages, seq, env, emitted,
                   gwHandlers, webhooks, apiHandlers, sockets, factory, listing, teamDel, late,
                   convReq, ctx, vault>>

\* await storage.deleteSmsGateway(gatewayId); res.json({ success: true, deletedNumbers })
GatewayDelete_DeleteSmsGateway ==
    /\ gwDel.pc = "deleteSmsGateway"
    /\ IF GatewayDeletable(gwDel.gatewayId)
       THEN /\ smsGateways' = { g \in smsGateways : g.id # gwDel.gatewayId }
            /\ gwDel' = [gwDel EXCEPT !.pc = "done", !.res = 200]
       ELSE /\ UNCHANGED smsGateways
            /\ gwDel' = [gwDel EXCEPT !.pc = "done", !.res = 500]
    /\ UNCHANGED <<users, phoneNumbers, conversations, messages, seq, env, emitted,
                   gwHandlers, webhooks, apiHandlers, sockets, factory, listing, teamDel, late,
                   convReq, ctx, vault>>

(***************************************************************************)
(* Gateway deletions by both admins and a team member, while inbound       *)
(* webhooks arrive on the two numbers of A1's gateway.  The conversation   *)
(* with the contact is on A1's first number.                               *)
(***************************************************************************)
SecondLine == <<"+", "1", "4", "1", "5", "5", "5", "5", "0", "0", "0", "0">>

InitGatewayDelete ==
    /\ users = SeedUsers
    /\ smsGateways = { GatewayRow(1, "A1", "telnyx", TRUE, Sealed),
                       GatewayRow(2, "A1", "twilio", FALSE, Sealed),
                       GatewayRow(3, "A2", "signalwire", TRUE, Sealed) }
    /\ phoneNumbers = { PhoneRow(1, MainLine, 1, "A1", "M1"),
                        PhoneRow(2, SalesLine, 3, "A2", NoUser),
                        PhoneRow(3, SecondLine, 1, "A1", NoUser) }
    /\ conversations = { ConversationRow(1, Contact, 1, "M1") }
    /\ messages = { MessageRow(1, 1, "A1", "outbound", "sent", "SM-out") }
    /\ seq = [gateway |-> 3, phone |-> 3, conversation |-> 1, message |-> 1]
    /\ emitted = NoEvents
    /\ env = NoSecrets
    /\ InitHandlers

GatewayDeleteInbound ==
    { WebhookRequest(InboundUrl, TRUE, InboundBody("telnyx", Contact, to, "SM-in"),
                     NoHeader, NoHeader) : to \in {MainLine, SecondLine} }

NextGatewayDelete ==
    \/ \E user \in {"A1", "A2", "M1"}, gatewayId \in {1, 2} :
          GatewayDelete_Start(user, gatewayId)
    \/ GatewayDelete_GetSmsGateway
    \/ GatewayDelete_SelectPhoneNumbers
    \/ GatewayDelete_ClearConversationPhoneNumbers
    \/ GatewayDelete_DeletePhoneNumbersByGateway
    \/ GatewayDelete_DeleteSmsGateway
    \/ \E rq \in GatewayDeleteInbound : Inbound_Start(rq)
    \/ Inbound_GetPhoneNumberByNumber
    \/ Inbound_GetConversation
    \/ Inbound_CreateConversation
    \/ Inbound_CreateMessage
    \/ Inbound_UpdateConversation

SpecGatewayDelete == InitGatewayDelete /\ [][NextGatewayDelete]_vars

InitInherit == InitTables /\ env = NoSecrets /\ InitHandlers

NextInherit ==
    \/ \E rq \in UnsignedInbound : Inbound_Start(rq)
    \/ Inbound_GetPhoneNumberByNumber
    \/ Inbound_GetConversation
    \/ Inbound_CreateConversation
    \/ Inbound_CreateMessage
    \/ Inbound_UpdateConversation
    \/ \E teamMemberId \in Members : Assign_Start("A1", teamMemberId, 1)
    \/ Assign_GetUser
    \/ Assign_GetPhoneNumber
    \/ Assign_GetSmsGateway
    \/ Assign_AssignPhoneNumber
    \/ Unassign_Start("A1", "M1", 1)
    \/ Unassign_GetPhoneNumber
    \/ Unassign_GetSmsGateway
    \/ Unassign_UnassignPhoneNumber

SpecInherit == InitInherit /\ [][NextInherit]_vars

(***************************************************************************)
(* C27: no step changes the assignedUserId of an existing conversation,    *)
(* be it a step of an inbound webhook on that conversation or of an        *)
(* assign or unassign of its phone number; the step of an inbound webhook  *)
(* that creates a conversation gives it the assignee of the phone number   *)
(* the handler looked up.                                                  *)
(***************************************************************************)
C27_AssigneeInheritedAtCreation ==
    [][ /\ \A c \in conversations : \A d \in conversations' :
             d.id = c.id => d.assignedUserId = c.assignedUserId
        /\ \A i \in DOMAIN inbound :
             (inbound[i].pc = "createConversation" /\ inbound'[i].pc = "createMessage") =>
                \A d \in conversations' \ conversations :
                   d.assignedUserId = TheRow(inbound[i].phoneNumber).assignedTo
      ]_vars

\* the number was unassigned from M1 and a second inbound webhook has completed
\* on the conversation created for M1: the conversation is still M1's
C27_AssigneeKept ==
    /\ \E p \in phoneNumbers : p.id = 1 /\ p.assignedTo # "M1"
    /\ \E c \in conversations :
          /\ c.assignedUserId = "M1"
          /\ Cardinality(getMessages(c.id)) = 2
    /\ \A i \in DOMAIN inbound : inbound[i].pc = "done" /\ inbound[i].res = 200
    /\ \E i \in DOMAIN unassignPhone : unassignPhone[i].pc = "done"

(***************************************************************************)
(* PATCH /api/conversations/:id (route "patch") and                        *)
(* POST /api/conversations/:id/read (route "read")                         *)
(***************************************************************************)
\* What PATCH writes: contactName, isPinned and category, columns the rows of
\* this model do not carry.
PatchColumns == << >>

\* What mark-read writes.
ReadColumns == [unreadCount |-> 0]

\* requireAuth, up to the await of getConversation
ConversationRequest_Start(route, user, id) ==
    /\ convReq.pc \in {"idle", "done"}
    /\ convReq' = [IdleConversationRequest EXCEPT
                      !.pc = "getConversation", !.route = route, !.user = user, !.id = id]
    /\ UNCHANGED <<tables, env, emitted, gwHandlers, webhooks, apiHandlers, sockets,
                   factory, listing, teamDel, late, gwDel, ctx, vault>>

\* conversation = await storage.getConversation(id): 404 without one.  PATCH
\* answers 403 unless the user is an admin or the conversation's assignedUserId;
\* mark-read goes on to the assigned phone numbers unless the user is an admin.
ConversationRequest_GetConversation ==
    /\ convReq.pc = "getConversation"
    /\ LET found == getConversation(convReq.id) IN
       convReq' =
          IF found = {} THEN [convReq EXCEPT !.pc = "done", !.res = 404]
          ELSE IF Role(convReq.user) = "admin"
          THEN [convReq EXCEPT !.pc = "updateConversation", !.conversation = found]
          ELSE IF convReq.route = "read"
          THEN [convReq EXCEPT !.pc = "getPhoneNumbersAssignedToUser",
                               !.conversation = found]
          ELSE IF TheRow(found).assignedUserId # convReq.user
          THEN [convReq EXCEPT !.pc = "done", !.res = 403]
          ELSE [convReq EXCEPT !.pc = "updateConversation", !.conversation = found]
    /\ UNCHANGED <<tables, env, emitted, gwHandlers, webhooks, apiHandlers, sockets,
                   factory, listing, teamDel, late, gwDel, ctx, vault>>

\* mark-read of a team member: assignedPhones = await
\* storage.getPhoneNumbersAssignedToUser(user.id); 403 unless the conversation's
\* phone number is among them
ConversationRequest_GetAssignedPhones ==
    /\ convReq.pc = "getPhoneNumbersAssignedToUser"
    /\ LET phoneIds == { p.id : p \in getPhoneNumbersAssignedToUser(convReq.user) }
           conversation == TheRow(convReq.conversation)
       IN convReq' =
             IF conversation.phoneNumberId = NoId \/ conversation.phoneNumberId \notin phoneIds
             THEN [convReq EXCEPT !.pc = "done", !.res = 403]
             ELSE [convReq EXCEPT !.pc = "updateConversation"]
    /\ UNCHANGED <<tables, env, emitted, gwHandlers, webhooks, apiHandlers, sockets,
                   factory, listing, teamDel, late, gwDel, ctx, vault>>

\* updated = await storage.updateConversation(id, ...); res.json(updated)
ConversationRequest_UpdateConversation ==
    /\ convReq.pc = "updateConversation"
    /\ conversations' = updateConversation(conversations, convReq.id,
                            IF convReq.route = "read" THEN ReadColumns ELSE PatchColumns)
    /\ convReq' = [convReq EXCEPT !.pc = "done", !.res = 200]
    /\ UNCHANGED <<users, smsGateways, phoneNumbers, messages, seq, env, emitted,
                   gwHandlers, webhooks, apiHandlers, sockets, factory, listing, teamDel, late,
                   gwDel, ctx, vault>>

\* An answered inbound webhook is over; the next delivery takes its place.
Inbound_Finish ==
    \E i \in DOMAIN inbound :
        /\ inbound[i].pc = "done"
        /\ inbound' = [inbound EXCEPT ![i] = IdleInbound]
        /\ UNCHANGED <<tables, env, emitted, notWebhook, statusWh>>

(***************************************************************************)
(* Inbound webhooks from the contact on an existing conversation of A1's   *)
(* number, one delivery after the other or overlapping, while A1, M1 and   *)
(* M2 mark the conversation read or edit it.                               *)
(***************************************************************************)
InitUnread ==
    /\ users = SeedUsers
    /\ smsGateways = { GatewayRow(1, "A1", "telnyx", TRUE, Sealed),
                       GatewayRow(2, "A1", "twilio", FALSE, Sealed),
                       GatewayRow(3, "A2", "signalwire", TRUE, Sealed) }
    /\ phoneNumbers = { PhoneRow(1, MainLine, 1, "A1", "M1"),
                        PhoneRow(2, SalesLine, 3, "A2", NoUser) }
    /\ conversations = { ConversationRow(1, Contact, 1, "M1") }
    /\ messages = {}
    /\ seq = [gateway |-> 3, phone |-> 2, conversation |-> 1, message |-> 0]
    /\ emitted = NoEvents
    /\ env = NoSecrets
    /\ InitHandlers

NextUnread ==
    \/ Inbound_Start(TelnyxInbound)
    \/ Inbound_GetPhoneNumberByNumber
    \/ Inbound_GetConversation
    \/ Inbound_CreateMessage
    \/ Inbound_UpdateConversation
    \/ Inbound_Finish
    \/ \E route \in {"read", "patch"}, user \in {"A1", "M1", "M2"}, id \in 1..2 :
          ConversationRequest_Start(route, user, id)
    \/ ConversationRequest_GetConversation
    \/ ConversationRequest_GetAssignedPhones
    \/ ConversationRequest_UpdateConversation

SpecUnread == InitUnread /\ [][NextUnread]_vars

(***************************************************************************)
(* C28: a step lowers the unreadCount of a conversation only if it is the  *)
(* update of a mark-read request for that conversation, which sets it to   *)
(* 0; no step of an inbound webhook or of a PATCH lowers it, in any        *)
(* interleaving.                                                           *)
(***************************************************************************)
C28_UnreadLoweredOnlyByMarkRead ==
    [][ \A c \in conversations : \A d \in conversations' :
          (d.id = c.id /\ d.unreadCount < c.unreadCount) =>
             /\ convReq.pc = "updateConversation" /\ convReq'.pc = "done"
             /\ convReq.route = "read" /\ convReq.id = c.id
             /\ d.unreadCount = 0
      ]_vars

(***************************************************************************)
(* getProviderContext(userId) (routes.ts)                                  *)
(***************************************************************************)
GetProviderContext_Start(userId) ==
    /\ ctx.pc \in {"idle", "done"}
    /\ ctx' = [IdleContext EXCEPT !.pc = "getUser", !.userId = userId]
    /\ UNCHANGED <<tables, env, emitted, gwHandlers, webhooks, apiHandlers, sockets,
                   factory, listing, teamDel, late, gwDel, convReq, vault>>

\* user = await storage.getUser(userId); adminId = user.role === "admin" ? user.id
\* : user.createdBy; the NoGatewayProvider without a user or without an adminId
GetProviderContext_GetUser ==
    /\ ctx.pc = "getUser"
    /\ LET found == getUser(ctx.userId)
           user == TheRow(found)
           adminId == IF user.role = "admin" THEN user.id ELSE user.createdBy
       IN ctx' = IF found = {} \/ adminId = NoUser
                 THEN [ctx EXCEPT !.pc = "done", !.provider = NoGatewayProvider]
                 ELSE [ctx EXCEPT !.pc = "getActiveSmsGateway", !.adminId = adminId]
    /\ UNCHANGED <<tables, env, emitted, gwHandlers, webhooks, apiHandlers, sockets,
                   factory, listing, teamDel, late, gwDel, convReq, vault>>

\* gateway = await storage.getActiveSmsGateway(adminId): the NoGatewayProvider
\* without one, else createSmsProvider(gateway), whose error is the call's error
GetProviderContext_GetActiveSmsGateway ==
    /\ ctx.pc = "getActiveSmsGateway"
    /\ LET found == getActiveSmsGateway(ctx.adminId) IN
       IF found = {}
       THEN ctx' = [ctx EXCEPT !.pc = "done", !.provider = NoGatewayProvider]
       ELSE \E gateway \in found :
              LET adapter == createSmsProvider(gateway, getEncryptionKey(env)) IN
              ctx' = IF adapter.ok
                     THEN [ctx EXCEPT !.pc = "done", !.provider = adapter,
                                      !.gateway = {gateway}]
                     ELSE [ctx EXCEPT !.pc = "done", !.threw = TRUE]
    /\ UNCHANGED <<tables, env, emitted, gwHandlers, webhooks, apiHandlers, sockets,
                   factory, listing, teamDel, late, gwDel, convReq, vault>>

(***************************************************************************)
(* getProviderContext for the admins, their team members, a team member    *)
(* nobody created and an id no user has, while gateways are activated.     *)
(* A1 has an active and an inactive gateway, A2 one that is not active.    *)
(***************************************************************************)
InitContext ==
    /\ users = (SeedUsers \ {UserRow("M2", "team_member", "A2")})
               \cup {UserRow("M2", "team_member", NoUser)}
    /\ \E credentials \in {Sealed, Text("text", NoObject)} :
          smsGateways = { GatewayRow(1, "A1", "signalwire", TRUE, credentials),
                          GatewayRow(2, "A1", "twilio", FALSE, Sealed),
                          GatewayRow(3, "A2", "telnyx", FALSE, Sealed) }
    /\ phoneNumbers = { PhoneRow(1, MainLine, 1, "A1", NoUser) }
    /\ conversations = {}
    /\ messages = {}
    /\ seq = [gateway |-> 3, phone |-> 1, conversation |-> 0, message |-> 0]
    /\ env = NoSecrets
    /\ emitted = NoEvents
    /\ InitHandlers

NextContext ==
    \/ \E userId \in {"A1", "A2", "M1", "M2", "nobody"} : GetProviderContext_Start(userId)
    \/ GetProviderContext_GetUser
    \/ GetProviderContext_GetActiveSmsGateway
    \/ ActivateGateway_Start
    \/ ActivateGateway_Deactivate
    \/ ActivateGateway_Activate

SpecContext == InitContext /\ [][NextContext]_vars

\* The tenant of a user row: an admin's is the admin, anyone else's the creator.
ResolvedTenant(user) == IF user.role = "admin" THEN user.id ELSE user.createdBy

(***************************************************************************)
(* C29: getProviderContext(userId) resolves the tenant as the user itself  *)
(* for an admin and as the user's creator for anyone else, and when the    *)
(* user is unknown, has no tenant, or the tenant has no active gateway it  *)
(* returns, without raising, the NoGatewayProvider, whose isConfigured()   *)
(* is false.                                                               *)
(***************************************************************************)
C29_NullObjectWithoutGateway ==
    [][ /\ (ctx.pc = "getUser" /\ ctx' # ctx) =>
              IF \A u \in users : u.id = ctx.userId => ResolvedTenant(u) = NoUser
              THEN /\ ctx'.pc = "done" /\ ~ctx'.threw
                   /\ ctx'.provider = NoGatewayProvider /\ ~isConfigured(ctx'.provider)
                   /\ ctx'.gateway = {}
              ELSE /\ ctx'.pc = "getActiveSmsGateway"
                   /\ \E u \in users : u.id = ctx.userId /\ ctx'.adminId = ResolvedTenant(u)
        /\ ( /\ ctx.pc = "getActiveSmsGateway" /\ ctx' # ctx
             /\ \A g \in smsGateways : ~(g.adminId = ctx.adminId /\ g.isActive) )
           => /\ ctx'.pc = "done" /\ ~ctx'.threw
              /\ ctx'.provider = NoGatewayProvider /\ ~isConfigured(ctx'.provider)
              /\ ctx'.gateway = {}
      ]_vars

\* the call for team member M1 resolved tenant A1 and, A1 being without an
\* active gateway at that moment, returned the NoGatewayProvider
C29_NullObjectReturned ==
    /\ ctx.pc = "done" /\ ctx.userId = "M1" /\ ctx.adminId = "A1"
    /\ ctx.provider = NoGatewayProvider /\ ~ctx.threw

(***************************************************************************)
(* The credential vault on its own: a plaintext is sealed, the envelope is *)
(* stored, altered or not, the process restarts under another              *)
(* ENCRYPTION_KEY or not, and the envelope is opened.                      *)
(***************************************************************************)
VaultPlaintexts == Plaintexts \cup {""}

\* The envelopes that differ from `text` in the named part only.
AlteredEnvelopes(text, part) ==
    LET object == text.object
        changed ==
          CASE part = "data" ->
                 { [object EXCEPT !.data = d] : d \in Ciphertexts }
            [] part = "iv" -> { [object EXCEPT !.iv = "iv2"] }
            [] part = "tag" -> { [object EXCEPT !.tag = t] : t \in AuthTags }
            [] part = "no iv" -> { [object EXCEPT !.iv = ""] }
            [] part = "no data" -> { [object EXCEPT !.data = NoHex] }
            [] part = "no tag" -> { [object EXCEPT !.tag = NoHex] }
            [] OTHER -> {}
    IN IF part = "not JSON"
       THEN { Text(form, NoObject) : form \in {"empty", "text", "brace"} }
       ELSE { Text("json", o) : o \in changed \ {object} }

AlteredParts == {"data", "iv", "tag", "no iv", "no data", "no tag", "not JSON"}

\* encryptCredentials(credentials)
Vault_Encrypt(plain) ==
    /\ vault.pc \in {"idle", "done"}
    /\ vault' = [IdleVault EXCEPT !.pc = "sealed", !.plain = plain,
                                  !.key = getEncryptionKey(env),
                                  !.envelope = encryptCredentials(plain, getEncryptionKey(env))]
    /\ UNCHANGED <<tables, env, emitted, gwHandlers, webhooks, apiHandlers, sockets,
                   factory, listing, teamDel, late, gwDel, convReq, ctx>>

\* the stored envelope is changed in one part
Vault_Alter(part) ==
    /\ vault.pc = "sealed"
    /\ vault.altered = ""
    /\ \E envelope \in AlteredEnvelopes(vault.envelope, part) :
          vault' = [vault EXCEPT !.altered = part, !.envelope = envelope]
    /\ UNCHANGED <<tables, env, emitted, gwHandlers, webhooks, apiHandlers, sockets,
                   factory, listing, teamDel, late, gwDel, convReq, ctx>>

\* const ENCRYPTION_KEY = process.env.ENCRYPTION_KEY, read again by a process
\* started with another value
Vault_Restart(key) ==
    /\ vault.pc = "sealed"
    /\ key # env.ENCRYPTION_KEY
    /\ env' = [env EXCEPT !.ENCRYPTION_KEY = key]
    /\ UNCHANGED <<tables, emitted, gwHandlers, webhooks, apiHandlers, sockets, misc>>

\* decryptCredentials(encrypted)
Vault_Decrypt ==
    /\ vault.pc = "sealed"
    /\ vault' = [vault EXCEPT !.pc = "done",
                              !.out = decryptCredentials(vault.envelope, getEncryptionKey(env))]
    /\ UNCHANGED <<tables, env, emitted, gwHandlers, webhooks, apiHandlers, sockets,
                   factory, listing, teamDel, late, gwDel, convReq, ctx>>

InitVault ==
    /\ users = SeedUsers
    /\ smsGateways = {}
    /\ phoneNumbers = {}
    /\ conversations = {}
    /\ messages = {}
    /\ seq = [gateway |-> 0, phone |-> 0, conversation |-> 0, message |-> 0]
    /\ env \in { [NoSecrets EXCEPT !.ENCRYPTION_KEY = k] : k \in {NoSecret, "k1", "k2"} }
    /\ emitted = NoEvents
    /\ InitHandlers

NextVault ==
    \/ \E plain \in VaultPlaintexts : Vault_Encrypt(plain)
    \/ \E part \in AlteredParts : Vault_Alter(part)
    \/ \E key \in {NoSecret, "k1", "k2"} : Vault_Restart(key)
    \/ Vault_Decrypt

SpecVault == InitVault /\ [][NextVault]_vars

(***************************************************************************)
(* C30: decryptCredentials(encryptCredentials(x)) = x for every plaintext  *)
(* x under the same key; for an envelope whose ciphertext, nonce or tag    *)
(* was altered, that lacks iv, data or tag or is not JSON, or that is      *)
(* opened under another key, decryptCredentials raises and returns no      *)
(* plaintext.                                                              *)
(***************************************************************************)
C30_VaultRoundTrip ==
    vault.pc = "done" =>
        IF vault.altered = "" /\ vault.key = getEncryptionKey(env)
        THEN vault.out = Returned(Plaintext(vault.plain))
        ELSE ~vault.out.ok

(***************************************************************************)
(* formatToE164 on its own: on national and international numbers, with    *)
(* and without punctuation, on short and empty strings, and on its own     *)
(* output.                                                                 *)
(***************************************************************************)
Subscriber == <<"5", "5", "5", "1", "2", "3", "4">>
British == <<"+", "4", "4", "1", "5", "5", "5", "5", "1", "2", "3", "4", "5", "6">>

PhonePrefixes ==
    { << >>, <<"+">>, <<"1">>, <<"+", "1">>, <<"(">>, <<"1", " ", "(">>, <<"0", "0">>,
      <<" ", "+">>, <<"2">> }
AreaCodes == { << >>, <<"4", "1", "5">>, <<"4", "1", "5", ")", " ">>, <<"1", "4", "1">> }
PhoneSuffixes == { << >>, <<"-", "0">>, <<"x">> }
PhoneInputs ==
    { prefix \o area \o Subscriber \o suffix
      : prefix \in PhonePrefixes, area \in AreaCodes, suffix \in PhoneSuffixes }
    \cup { EmptyString, <<"+">>, <<"a", "b">>, British, Tail(MainLine), Tail(Tail(MainLine)) }

Format_Start(phone) ==
    /\ fmt.pc \in {"idle", "done"}
    /\ fmt' = [IdleFormat EXCEPT !.pc = "called", !.phone = phone,
                                 !.out = formatToE164(phone)]
    /\ UNCHANGED <<tables, env, emitted, gwHandlers, webhooks, apiHandlers, sockets,
                   factory, listing, teamDel, recent, retry, teamReq>>

\* formatToE164 applied to its own output
Format_Again ==
    /\ fmt.pc = "called"
    /\ fmt' = [fmt EXCEPT !.pc = "done", !.again = formatToE164(fmt.out)]
    /\ UNCHANGED <<tables, env, emitted, gwHandlers, webhooks, apiHandlers, sockets,
                   factory, listing, teamDel, recent, retry, teamReq>>

InitFormat ==
    /\ users = SeedUsers
    /\ smsGateways = {}
    /\ phoneNumbers = {}
    /\ conversations = {}
    /\ messages = {}
    /\ seq = [gateway |-> 0, phone |-> 0, conversation |-> 0, message |-> 0]
    /\ env = NoSecrets
    /\ emitted = NoEvents
    /\ InitHandlers

NextFormat ==
    \/ \E phone \in PhoneInputs : Format_Start(phone)
    \/ Format_Again

SpecFormat == InitFormat /\ [][NextFormat]_vars

\* The digits of a string, in order, one character at a time.
RECURSIVE DigitsOf(_)
DigitsOf(str) ==
    IF str = << >> THEN << >>
    ELSE IF Head(str) \in Digit THEN <<Head(str)>> \o DigitsOf(Tail(str))
    ELSE DigitsOf(Tail(str))

(***************************************************************************)
(* C31: formatToE164 returns "+" and the digits of an input that starts    *)
(* with "+", "+1" and the digits of an input of exactly 10 digits, and "+" *)
(* and the digits of any other input; so 4155551234 and 14155551234 both   *)
(* give +14155551234, +4415555123456 is kept, and formatting an output     *)
(* again returns it unchanged.                                             *)
(***************************************************************************)
C31_FormatToE164 ==
    LET digits == DigitsOf(fmt.phone) IN
    /\ fmt.pc \in {"called", "done"} =>
          /\ (fmt.phone # << >> /\ Head(fmt.phone) = "+") => fmt.out = <<"+">> \o digits
          /\ (~(fmt.phone # << >> /\ Head(fmt.phone) = "+") /\ Len(digits) = 10) =>
                fmt.out = <<"+", "1">> \o digits
          /\ (~(fmt.phone # << >> /\ Head(fmt.phone) = "+") /\ Len(digits) # 10) =>
                fmt.out = <<"+">> \o digits
          /\ fmt.phone \in {Tail(MainLine), Tail(Tail(MainLine))} => fmt.out = MainLine
          /\ fmt.phone = British => fmt.out = British
    /\ fmt.pc = "done" => fmt.again = fmt.out

\* 4155551234 was formatted to +14155551234 and that output formatted again
C31_NationalNumberFormatted ==
    /\ fmt.pc = "done"
    /\ fmt.phone = Tail(Tail(MainLine))
    /\ fmt.again = MainLine

\* The canonical status of a lower-cased raw status, one table for both shapes.
CanonicalStatus(rawStatus) ==
    CASE rawStatus \in {"queued", "accepted"} -> "pending"
      [] rawStatus \in {"sending", "sent"} -> "sent"
      [] rawStatus = "delivered" -> "delivered"
      [] rawStatus \in {"undelivered", "failed", "delivery_failed", "sending_failed"} -> "failed"
      [] OTHER -> "sent"

(***************************************************************************)
(* C32: for the Twilio/SignalWire and for the Telnyx shape of a status     *)
(* webhook the handler carries the status that the one table gives for the *)
(* lower-cased raw status: queued and accepted pending, sending and sent   *)
(* sent, delivered delivered, undelivered, failed, delivery_failed and     *)
(* sending_failed failed, anything else and an absent status sent.         *)
(***************************************************************************)
C32_StatusMapping ==
    [][ \A rq \in UnsignedStatus :
          Status_Start(rq) =>
             \E i \in FirstIdle(statusWh) :
                /\ statusWh'[i].pc = "getMessageBySignalwireId"
                /\ statusWh'[i].status = CanonicalStatus(toLowerCase(rq.body.Status))
      ]_vars

(***************************************************************************)
(* retryWithBackoff around the SignalWire adapter's getAvailableNumbers    *)
(* and getOwnedNumbers (sms-providers/signalwire-provider.ts).             *)
(***************************************************************************)
baseDelayMs == 1000

\* A backoff that does not grow.
FixedDelay(attempt) == baseDelayMs

\* const delayMs = baseDelayMs * Math.pow(2, attempt)
BackoffDelay(attempt) == baseDelayMs * 2^attempt

\* What an attempt can fail with: a rejected fetch, a response that is not ok,
\* a body that is not JSON.
FetchErrors == {"network", "not ok", "not JSON"}

\* getAvailableNumbers / getOwnedNumbers: the isConfigured() check, then
\* retryWithBackoff's loop at attempt 0
Retry_Start(operation, configured) ==
    /\ retry.pc \in {"idle", "done"}
    /\ retry' = IF configured
                THEN [IdleRetry EXCEPT !.pc = "fn", !.operation = operation]
                ELSE [IdleRetry EXCEPT !.pc = "done", !.operation = operation,
                                       !.result = "threw", !.error = "not configured"]
    /\ UNCHANGED <<tables, env, emitted, gwHandlers, webhooks, apiHandlers, sockets,
                   factory, listing, teamDel, recent, fmt, teamReq>>

\* return await fn(): the result is returned, or the error is kept in lastError
\* and, unless this was the last attempt, the delay is started; after the last
\* attempt the loop ends and lastError is thrown
Retry_Fn(outcome) ==
    /\ retry.pc = "fn"
    /\ retry' =
         IF outcome = "returns"
         THEN [retry EXCEPT !.pc = "done", !.calls = @ + 1, !.result = "returned"]
         ELSE IF retryWithBackoff(TRUE, retry.attempt)
         THEN [retry EXCEPT !.pc = "setTimeout", !.calls = @ + 1, !.lastError = outcome,
                            !.thrown = Append(@, outcome),
                            !.waits = Append(@, BackoffDelay(retry.attempt))]
         ELSE [retry EXCEPT !.pc = "done", !.calls = @ + 1, !.lastError = outcome,
                            !.thrown = Append(@, outcome), !.attempt = @ + 1,
                            !.result = "threw", !.error = outcome]
    /\ UNCHANGED <<tables, env, emitted, gwHandlers, webhooks, apiHandlers, sockets,
                   factory, listing, teamDel, recent, fmt, teamReq>>

\* the timer fires: attempt++ and the next iteration
Retry_Timeout ==
    /\ retry.pc = "setTimeout"
    /\ retry' = [retry EXCEPT !.pc = "fn", !.attempt = @ + 1]
    /\ UNCHANGED <<tables, env, emitted, gwHandlers, webhooks, apiHandlers, sockets,
                   factory, listing, teamDel, recent, fmt, teamReq>>

InitRetry ==
    /\ users = SeedUsers
    /\ smsGateways = { GatewayRow(1, "A1", "signalwire", TRUE, Sealed) }
    /\ phoneNumbers = {}
    /\ conversations = {}
    /\ messages = {}
    /\ seq = [gateway |-> 1, phone |-> 0, conversation |-> 0, message |-> 0]
    /\ env = NoSecrets
    /\ emitted = NoEvents
    /\ InitHandlers

NextRetry ==
    \/ \E operation \in {"getAvailableNumbers", "getOwnedNumbers"}, configured \in BOOLEAN :
          Retry_Start(operation, configured)
    \/ \E outcome \in FetchErrors \cup {"returns"} : Retry_Fn(outcome)
    \/ Retry_Timeout

\* every fetch settles (the HTTP client's timeouts) and every timer fires
SpecRetry ==
    /\ InitRetry /\ [][NextRetry]_vars
    /\ WF_vars(\E outcome \in FetchErrors \cup {"returns"} : Retry_Fn(outcome))
    /\ WF_vars(Retry_Timeout)

\* The delays slept after the first n failures: 1 s, 2 s, ...
RECURSIVE Doubled(_, _)
Doubled(first, n) == IF n = 0 THEN << >> ELSE <<first>> \o Doubled(2 * first, n - 1)

(***************************************************************************)
(* C33: retryWithBackoff around getAvailableNumbers and getOwnedNumbers    *)
(* always terminates; it invokes the operation at most 3 times, returns    *)
(* the first successful result without a further attempt, has waited 1 s   *)
(* after the first failure and 2 s after the second and nothing after the  *)
(* third, and after 3 failures raises the error of the third attempt.      *)
(***************************************************************************)
C33_RetryBounded ==
    /\ [](/\ retry.calls <= 3
          /\ retry.calls = Len(retry.thrown) + (IF retry.result = "returned" THEN 1 ELSE 0)
          /\ Len(retry.waits) <= 2
          /\ retry.waits = Doubled(1000, Len(retry.waits))
          /\ retry.pc = "setTimeout" => Len(retry.waits) = Len(retry.thrown)
          /\ (retry.pc = "done" /\ retry.result = "returned") =>
                Len(retry.waits) = Len(retry.thrown)
          /\ (retry.pc = "done" /\ retry.result = "threw" /\ retry.calls > 0) =>
                /\ retry.calls = 3
                /\ retry.waits = <<1000, 2000>>
                /\ retry.error = retry.thrown[3])
    /\ (retry.pc \in {"fn", "setTimeout"}) ~> (retry.pc = "done")

\* three attempts failed differently, and the third error was raised
C33_ThirdErrorRaised ==
    /\ retry.pc = "done"
    /\ retry.thrown = <<"network", "not ok", "not JSON">>
    /\ retry.error = "not JSON"

(***************************************************************************)
(* createSmsProvider on gateway objects as arguments: every provider kind, *)
(* one that is none of the three, and every form of the credentials, under *)
(* every encryption key the process can run with.                          *)
(***************************************************************************)
GatewayArguments ==
    { GatewayRow(NoId, "A1", provider, FALSE, credentials)
      : provider \in Providers \cup {"plivo"},
        credentials \in StoredCredentials
                        \cup { Text("object", JsonObject("", NoHex, NoHex, "complete")) } }

\* createSmsProvider(gateway) on a gateway object
CreateSmsProvider_Call(gateway) ==
    /\ factory.pc = "idle"
    /\ factory' = [pc |-> "done", gatewayId |-> gateway.id, gateway |-> {gateway},
                   adapter |-> createSmsProvider(gateway, getEncryptionKey(env))]
    /\ UNCHANGED <<tables, env, emitted, gwHandlers, webhooks, apiHandlers, sockets,
                   listing, teamDel, recent, late>>

InitKinds ==
    /\ users = SeedUsers
    /\ smsGateways = {}
    /\ phoneNumbers = {}
    /\ conversations = {}
    /\ messages = {}
    /\ seq = [gateway |-> 0, phone |-> 0, conversation |-> 0, message |-> 0]
    /\ env \in { [NoSecrets EXCEPT !.ENCRYPTION_KEY = k] : k \in {NoSecret, "k1", "k2"} }
    /\ emitted = NoEvents
    /\ InitHandlers

NextKinds == \E gateway \in GatewayArguments : CreateSmsProvider_Call(gateway)

SpecKinds == InitKinds /\ [][NextKinds]_vars

\* The credentials are an envelope sealed under the process's key around JSON.
ValidlySealed(credentials, key) ==
    /\ credentials.form = "json"
    /\ credentials.object.iv # "" /\ credentials.object.data # NoHex
    /\ credentials.object.tag # NoHex
    /\ credentials.object.data.key = key /\ credentials.object.tag.key = key
    /\ credentials.object.data.iv = credentials.object.iv
    /\ credentials.object.tag.iv = credentials.object.iv
    /\ credentials.object.tag.plain = credentials.object.data.plain
    /\ credentials.object.data.plain \in {"complete", "partial"}

\* The credentials are a JSON object that is no envelope.
LegacyJson(credentials) ==
    /\ credentials.form \in {"json", "object"}
    /\ credentials.object.iv = "" \/ credentials.object.data = NoHex
       \/ credentials.object.tag = NoHex

(***************************************************************************)
(* C34: createSmsProvider returns the adapter of the gateway's provider    *)
(* kind for credentials in a validly sealed envelope and for legacy        *)
(* unencrypted JSON credentials, raises the unknown-provider error for     *)
(* such credentials with a provider kind that is none of twilio,           *)
(* signalwire and telnyx, and raises the invalid-credentials error for a   *)
(* credential string that is empty or neither JSON nor an envelope.        *)
(***************************************************************************)
C34_AdapterMatchesProvider ==
    (factory.pc = "done" /\ factory.gateway # {}) =>
        \A gateway \in factory.gateway :
            LET credentials == gateway.credentials
                key == getEncryptionKey(env)
                usable == ValidlySealed(credentials, key) \/ LegacyJson(credentials)
            IN /\ (usable /\ gateway.provider \in {"twilio", "signalwire", "telnyx"}) =>
                     /\ factory.adapter.ok
                     /\ factory.adapter.provider = gateway.provider
                     /\ factory.adapter.credentials.fields =
                           IF LegacyJson(credentials) THEN credentials.object.fields
                           ELSE credentials.object.data.plain
               /\ (usable /\ gateway.provider \notin {"twilio", "signalwire", "telnyx"}) =>
                     /\ ~factory.adapter.ok
                     /\ factory.adapter.error = "Unknown SMS provider"
               /\ credentials.form \in {"empty", "blank", "text", "brace"} =>
                     /\ ~factory.adapter.ok
                     /\ factory.adapter.error = "Invalid gateway credentials"

\* a Telnyx gateway with sealed credentials got its Telnyx adapter
C34_SealedTelnyxAdapter ==
    /\ factory.pc = "done"
    /\ \E gateway \in factory.gateway :
          /\ gateway.provider = "telnyx"
          /\ ValidlySealed(gateway.credentials, getEncryptionKey(env))
    /\ factory.adapter.ok /\ factory.adapter.provider = "telnyx"

(***************************************************************************)
(* Activation requests on a fixed set of gateways: 1 (active) and 2 of A1, *)
(* 3 (active) of A2, and no gateway 4.  No gateway is created or deleted,  *)
(* so a request ends in 404 exactly when its id names no gateway of the    *)
(* requesting admin.                                                       *)
(***************************************************************************)
InitActivate ==
    /\ users = SeedUsers
    /\ smsGateways = { GatewayRow(1, "A1", "telnyx", TRUE, Sealed),
                       GatewayRow(2, "A1", "twilio", FALSE, Sealed),
                       GatewayRow(3, "A2", "signalwire", TRUE, Sealed) }
    /\ phoneNumbers = { PhoneRow(1, MainLine, 1, "A1", "M1") }
    /\ conversations = {}
    /\ messages = {}
    /\ seq = [gateway |-> 3, phone |-> 1, conversation |-> 0, message |-> 0]
    /\ env = NoSecrets
    /\ emitted = NoEvents
    /\ InitHandlers

NextActivate ==
    \/ ActivateGateway_Start
    \/ ActivateGateway_Deactivate
    \/ ActivateGateway_Activate

SpecActivate == InitActivate /\ [][NextActivate]_vars

\* The request of handler h names no gateway of the requesting admin.
GatewayNotFound(h) ==
    \A g \in smsGateways : ~(g.id = h.gatewayId /\ g.adminId = h.user)

(***************************************************************************)
(* C35: an activation request that ends in 404 Gateway not found (its id   *)
(* names no gateway of the requesting tenant) changes the active flag of   *)
(* none of that tenant's gateways by any of its steps: the gateway that    *)
(* was active is still active when the 404 is sent.                        *)
(***************************************************************************)
C35_NotFoundKeepsActive ==
    [][ \A i \in DOMAIN activateGw :
          ( /\ activateGw[i].pc \in {"deactivate", "activate"}
            /\ activateGw'[i] # activateGw[i]
            /\ GatewayNotFound(activateGw[i]) ) =>
             /\ \A g \in smsGateways :
                  g.adminId = activateGw[i].user =>
                     \E n \in smsGateways' : n.id = g.id /\ n.isActive = g.isActive
             /\ activateGw'[i].pc = "done" => activateGw'[i].res = 404
      ]_vars

(***************************************************************************)
(* A connection that sends, in this order and once each: auth, subscribe   *)
(* for a conversation, unsubscribe for the same conversation (the hook's   *)
(* subscribeToConversation and unsubscribeFromConversation).  A message is *)
(* sent without waiting for the handler of the one before, except that     *)
(* subscribe is sent after auth_success.                                   *)
(***************************************************************************)
HandlersOf(ws) == { i \in DOMAIN wsMsg : wsMsg[i].pc # "idle" /\ wsMsg[i].ws = ws }

Ordered_Message(ws, message) ==
    /\ Ws_Message(ws, message)
    /\ CASE message.type = "auth" -> HandlersOf(ws) = {}
         [] message.type = "subscribe" ->
               Cardinality(HandlersOf(ws)) = 1 /\ ~NotAuthenticated(ws)
         [] message.type = "unsubscribe" ->
               /\ Cardinality(HandlersOf(ws)) = 2
               /\ \/ \E i \in HandlersOf(ws) :
                        /\ wsMsg[i].pc = "getConversation"
                        /\ wsMsg[i].conversationId = message.conversationId
                  \/ message.conversationId \in conns[ws].subscribedConversations

OrderedMessages ==
    { WsMessage("auth", u, NoId) : u \in {"A1", "M1", "M2"} }
    \cup { WsMessage(type, NoUser, c) : type \in {"subscribe", "unsubscribe"}, c \in 1..2 }

InitOrdered == InitWithMessage /\ env = NoSecrets /\ InitHandlers

NextOrdered ==
    \/ \E ws \in 1..MaxConnections : Ws_Open(ws)
    \/ \E ws \in 1..MaxConnections, message \in OrderedMessages :
          Ordered_Message(ws, message)
    \/ Ws_AuthGetUser
    \/ Ws_SubscribeGetConversation

SpecOrdered == InitOrdered /\ [][NextOrdered]_vars

(***************************************************************************)
(* C36: the messages of a connection take effect in the order they arrive: *)
(* once the handlers of an authorized connection's subscribe and of its    *)
(* later unsubscribe for the same conversation have both finished, the     *)
(* connection is in no conversation's subscriber set.                      *)
(***************************************************************************)
C36_UnsubscribeAfterSubscribe ==
    \A ws \in 1..MaxConnections :
        ( /\ Cardinality(HandlersOf(ws)) = 3
          /\ \A i \in HandlersOf(ws) : wsMsg[i].pc = "done" ) =>
            \A c \in DOMAIN clients : ws \notin clients[c]

(***************************************************************************)
(* Status webhooks beside inbound messages: the contact's messages arrive  *)
(* on A1's number with provider message id SM-in or without one, and       *)
(* status webhooks of both shapes name SM-out (the message sent), SM-in or *)
(* no id.                                                                  *)
(***************************************************************************)
IdentifiedInbound ==
    { WebhookRequest(InboundUrl, TRUE, InboundBody(shape, Contact, MainLine, id),
                     NoHeader, NoHeader)
      : shape \in {"twilio", "telnyx"}, id \in {"SM-in", ""} }

IdentifiedStatus ==
    { WebhookRequest(StatusUrl, TRUE, StatusBody(shape, sid, "failed"), NoHeader, NoHeader)
      : shape \in {"twilio", "telnyx"}, sid \in {"SM-out", "SM-in", ""} }

InitIdentified == InitWithMessage /\ env = NoSecrets /\ InitHandlers

NextIdentified ==
    \/ \E rq \in IdentifiedInbound : Inbound_Start(rq)
    \/ Inbound_GetPhoneNumberByNumber
    \/ Inbound_GetConversation
    \/ Inbound_CreateMessage
    \/ Inbound_UpdateConversation
    \/ \E rq \in IdentifiedStatus : Status_Start(rq)
    \/ Status_GetMessage
    \/ Status_UpdateMessage

SpecIdentified == InitIdentified /\ [][NextIdentified]_vars

(***************************************************************************)
(* C37: a step changes the status of a message only if the message is      *)
(* outbound and the step is the update of a status webhook whose provider  *)
(* message id is not empty and equals the id stored with the message: a    *)
(* webhook without id changes no message, and an inbound message stays     *)
(* delivered.                                                              *)
(***************************************************************************)
C37_OnlyIdentifiedOutbound ==
    [][ \A m \in messages : \A n \in messages' :
          (n.id = m.id /\ n.status # m.status) =>
             /\ m.direction = "outbound"
             /\ \E i \in DOMAIN statusWh :
                   /\ statusWh[i].pc = "updateMessage" /\ statusWh'[i].pc = "done"
                   /\ statusWh[i].providerMessageId # ""
                   /\ statusWh[i].providerMessageId = m.signalwireMessageId
      ]_vars

(***************************************************************************)
(* C38: the send route stores an outbound message with status failed only  *)
(* if the provider's send call raised an error: when the call returned     *)
(* (with queued, accepted, sending or sent), the message is stored with    *)
(* the provider's message id and a status other than failed.               *)
(***************************************************************************)
C38_FailedOnlyWhenSendRaised ==
    [][ \A i \in DOMAIN send :
          (send[i].pc = "createMessage" /\ send'[i].pc = "updateConversation") =>
             \A m \in send'[i].message :
                /\ m.status = "failed" => send[i].smsError
                /\ (send[i].fetches = 1 /\ ~send[i].smsError) =>
                      /\ m.signalwireMessageId = ProviderSid(i)
                      /\ m.status # "failed"
      ]_vars

(***************************************************************************)
(* PATCH /api/team/:id and POST /api/team/:id/reset-password               *)
(***************************************************************************)
\* db.update(users).set(data).where(eq(users.id, id))
updateUser(table, id, data) ==
    { IF u.id = id THEN [c \in DOMAIN u |-> IF c \in DOMAIN data THEN data[c] ELSE u[c]]
      ELSE u : u \in table }

\* requireAuth, requireAdmin, then the await of updateUser (PATCH) or of getUser
\* (reset-password)
TeamRequest_Start(route, user, id, isActive) ==
    /\ teamReq.pc \in {"idle", "done"}
    /\ teamReq' =
         IF user \notin { u.id : u \in { u \in users : u.role = "admin" } }
         THEN [IdleTeamRequest EXCEPT !.pc = "done", !.route = route, !.user = user,
                                      !.id = id, !.res = 403]
         ELSE [IdleTeamRequest EXCEPT !.pc = IF route = "PATCH" THEN "updateUser"
                                             ELSE "getUser",
                                      !.route = route, !.user = user, !.id = id,
                                      !.isActive = isActive]
    /\ UNCHANGED <<tables, env, emitted, gwHandlers, webhooks, apiHandlers, sockets,
                   factory, listing, teamDel, recent, fmt, retry>>

\* PATCH: user = await storage.updateUser(id, { isActive }); 404 without a row
TeamRequest_UpdateUser ==
    /\ teamReq.pc = "updateUser"
    /\ users' = updateUser(users, teamReq.id, [isActive |-> teamReq.isActive])
    /\ teamReq' = [teamReq EXCEPT !.pc = "done",
                                  !.res = IF getUser(teamReq.id) = {} THEN 404 ELSE 200]
    /\ UNCHANGED <<smsGateways, phoneNumbers, conversations, messages, seq, env, emitted,
                   gwHandlers, webhooks, apiHandlers, sockets, factory, listing, teamDel,
                   recent, fmt, retry>>

\* reset-password: user = await storage.getUser(id): 404 without one, 403 for an
\* admin, else on to the hash of a random password
TeamRequest_GetUser ==
    /\ teamReq.pc = "getUser"
    /\ LET found == getUser(teamReq.id) IN
       teamReq' = IF found = {} THEN [teamReq EXCEPT !.pc = "done", !.res = 404]
                  ELSE IF TheRow(found).role = "admin"
                  THEN [teamReq EXCEPT !.pc = "done", !.res = 403]
                  ELSE [teamReq EXCEPT !.pc = "updatePassword"]
    /\ UNCHANGED <<tables, env, emitted, gwHandlers, webhooks, apiHandlers, sockets,
                   factory, listing, teamDel, recent, fmt, retry>>

\* await storage.updateUser(id, { password: hashedPassword }), then the answer
\* with the temporary password
TeamRequest_UpdatePassword ==
    /\ teamReq.pc = "updatePassword"
    /\ users' = updateUser(users, teamReq.id, [password |-> "temporary"])
    /\ teamReq' = [teamReq EXCEPT !.pc = "done", !.res = 200]
    /\ UNCHANGED <<smsGateways, phoneNumbers, conversations, messages, seq, env, emitted,
                   gwHandlers, webhooks, apiHandlers, sockets, factory, listing, teamDel,
                   recent, fmt, retry>>

(***************************************************************************)
(* Team management requests of every user, naming the members of both      *)
(* tenants, an admin and an id no user has.                                *)
(***************************************************************************)
InitManage ==
    /\ users = SeedUsers
    /\ smsGateways = { GatewayRow(1, "A1", "telnyx", TRUE, Sealed) }
    /\ phoneNumbers = { PhoneRow(1, MainLine, 1, "A1", "M1") }
    /\ conversations = {}
    /\ messages = {}
    /\ seq = [gateway |-> 1, phone |-> 1, conversation |-> 0, message |-> 0]
    /\ env = NoSecrets
    /\ emitted = NoEvents
    /\ InitHandlers

NextManage ==
    \/ \E route \in {"PATCH", "reset-password"}, user \in UserIds,
          id \in UserIds \cup {"nobody"}, isActive \in BOOLEAN :
          TeamRequest_Start(route, user, id, isActive)
    \/ TeamRequest_UpdateUser
    \/ TeamRequest_GetUser
    \/ TeamRequest_UpdatePassword

SpecManage == InitManage /\ [][NextManage]_vars

(***************************************************************************)
(* C39: team management is tenant-scoped: a step changes a user row only   *)
(* on behalf of the admin who created that user, and a request that names  *)
(* a user the requesting admin did not create ends refused (403 or 404).   *)
(***************************************************************************)
C39_TeamTenantScoped ==
    [][ /\ \A u \in users : \A n \in users' :
             (n.id = u.id /\ n # u) => u.createdBy = teamReq.user
        /\ ( /\ teamReq.pc # "done" /\ teamReq'.pc = "done"
             /\ \A u \in users : u.id = teamReq.id => u.createdBy # teamReq.user )
           => teamReq'.res \in {403, 404}
      ]_vars

====
